---------------------------- MODULE Spec2Model ----------------------------
(***************************************************************************)
(* Session store, conversation flow engine and chat endpoint of the        *)
(* symptom-triage chatbot (conversation_manager.py, medical_logic.py,      *)
(* app.py).                                                                *)
(*                                                                         *)
(* Python objects are modelled with their identity: a conversation state   *)
(* is a dict on a heap (dicts), its 'answers' value is a list on a heap    *)
(* (lists), and the store and the request handlers hold references.  A     *)
(* Python str is a sequence of one-character strings, so that the string   *)
(* operations of the code (strip, re.sub, replace, lower, in, startswith,  *)
(* capitalize) are computed as the code computes them.                     *)
(***************************************************************************)
EXTENDS Integers, Sequences, FiniteSets, TLC

(***************************************************************************)
(* Bounds of the model.                                                    *)
(***************************************************************************)
\* The clock stops advancing once it has reached MaxTime (hours).
MaxTime ==
  25

\* No more than MaxAudioTurns audio turns are started in one behaviour.
MaxAudioTurns ==
  12

\* No more than MaxTurns chat requests are started in one behaviour.
MaxTurns ==
  5

\* largest number of chat turns started when two threads handle them at once
MaxRaceTurns ==
  4

\* largest number of chat turns started when two threads handle requests on
\* any session id at once
MaxSessionTurns ==
  2

\* largest number of audio turns started when two callers are served at once
MaxAudioRaceTurns ==
  3

(***************************************************************************)
(* Python str operations.                                                  *)
(***************************************************************************)
Whitespace ==
  {" ", "\t", "\n", "\r"}

UpperChars ==
  <<"A", "B", "C", "D", "E", "F", "G", "H", "I", "J", "K", "L", "M",
    "N", "O", "P", "Q", "R", "S", "T", "U", "V", "W", "X", "Y", "Z">>

LowerChars ==
  <<"a", "b", "c", "d", "e", "f", "g", "h", "i", "j", "k", "l", "m",
    "n", "o", "p", "q", "r", "s", "t", "u", "v", "w", "x", "y", "z">>

\* str.lower() of one character
lower_char(c) ==
  IF \E i \in 1..Len(UpperChars) : UpperChars[i] = c
    THEN LowerChars[CHOOSE i \in 1..Len(UpperChars) : UpperChars[i] = c]
    ELSE c

\* str.upper() of one character
upper_char(c) ==
  IF \E i \in 1..Len(LowerChars) : LowerChars[i] = c
    THEN UpperChars[CHOOSE i \in 1..Len(LowerChars) : LowerChars[i] = c]
    ELSE c

\* str.lower()
lower(s) ==
  [i \in 1..Len(s) |-> lower_char(s[i])]

\* str.capitalize(): first character upper-cased, the rest lower-cased
capitalize(s) ==
  [i \in 1..Len(s) |-> IF i = 1 THEN upper_char(s[i]) ELSE lower_char(s[i])]

RECURSIVE lstrip(_)
\* leading whitespace removed
lstrip(s) ==
  IF s # <<>> /\ Head(s) \in Whitespace THEN lstrip(Tail(s)) ELSE s

RECURSIVE rstrip(_)
\* trailing whitespace removed
rstrip(s) ==
  IF s # <<>> /\ s[Len(s)] \in Whitespace
    THEN rstrip(SubSeq(s, 1, Len(s) - 1))
    ELSE s

\* fault: nothing is removed
strip_Nothing(s) ==
  s

\* str.strip()
strip(s) ==
  rstrip(lstrip(s))

\* s.startswith(prefix)
startswith(s, prefix) ==
  /\ Len(prefix) <= Len(s)
  /\ SubSeq(s, 1, Len(prefix)) = prefix

RECURSIVE contains(_, _)
\* pattern in s
contains(pattern, s) ==
  IF Len(pattern) > Len(s) THEN FALSE
  ELSE IF startswith(s, pattern) THEN TRUE
  ELSE contains(pattern, Tail(s))

RECURSIVE replace(_, _, _)
\* s.replace(old, new) for a non-empty old: leftmost non-overlapping
\* occurrences, scanning left to right
replace(s, old, new) ==
  IF s = <<>> THEN <<>>
  ELSE IF startswith(s, old)
    THEN new \o replace(SubSeq(s, Len(old) + 1, Len(s)), old, new)
    ELSE <<Head(s)>> \o replace(Tail(s), old, new)

RECURSIVE collapse_whitespace(_)
\* re.sub(r'\s+', ' ', s): every maximal run of whitespace becomes one space
collapse_whitespace(s) ==
  IF s = <<>> THEN <<>>
  ELSE IF Head(s) \in Whitespace
    THEN <<" ">> \o collapse_whitespace(lstrip(s))
    ELSE <<Head(s)>> \o collapse_whitespace(Tail(s))


(***************************************************************************)
(* MedicalLogic: the pure parts of the conversation flow engine.           *)
(***************************************************************************)
\* self.max_questions
max_questions ==
  3

\* self.symptom_patterns, in the dict's insertion (= iteration) order
symptom_patterns ==
  <<
    [symptom_type |-> <<"h", "e", "a", "d", "a", "c", "h", "e">>,
     patterns |->
       <<<<"h", "e", "a", "d", "a", "c", "h", "e">>,
         <<"h", "e", "a", "d", " ", "p", "a", "i", "n">>,
         <<"h", "e", "a", "d", " ", "a", "c", "h", "e">>,
         <<"m", "i", "g", "r", "a", "i", "n", "e">>>>],
    [symptom_type |-> <<"f", "e", "v", "e", "r">>,
     patterns |->
       <<<<"f", "e", "v", "e", "r">>,
         <<"t", "e", "m", "p", "e", "r", "a", "t", "u", "r", "e">>,
         <<"h", "o", "t">>,
         <<"b", "u", "r", "n", "i", "n", "g", " ", "u", "p">>>>],
    [symptom_type |-> <<"c", "o", "u", "g", "h">>,
     patterns |->
       <<<<"c", "o", "u", "g", "h">>,
         <<"c", "o", "u", "g", "h", "i", "n", "g">>,
         <<"h", "a", "c", "k">>>>],
    [symptom_type |-> <<"p", "a", "i", "n">>,
     patterns |->
       <<<<"p", "a", "i", "n">>,
         <<"h", "u", "r", "t">>,
         <<"a", "c", "h", "e">>,
         <<"s", "o", "r", "e">>>>],
    [symptom_type |-> <<"n", "a", "u", "s", "e", "a">>,
     patterns |->
       <<<<"n", "a", "u", "s", "e", "a">>,
         <<"n", "a", "u", "s", "e", "o", "u", "s">>,
         <<"s", "i", "c", "k", " ", "t", "o", " ", "s", "t", "o", "m", "a", "c", "h">>,
         <<"q", "u", "e", "a", "s", "y">>>>],
    [symptom_type |-> <<"f", "a", "t", "i", "g", "u", "e">>,
     patterns |->
       <<<<"t", "i", "r", "e", "d">>,
         <<"f", "a", "t", "i", "g", "u", "e">>,
         <<"e", "x", "h", "a", "u", "s", "t", "e", "d">>,
         <<"w", "e", "a", "k">>>>],
    [symptom_type |-> <<"d", "i", "z", "z", "i", "n", "e", "s", "s">>,
     patterns |->
       <<<<"d", "i", "z", "z", "y">>,
         <<"d", "i", "z", "z", "i", "n", "e", "s", "s">>,
         <<"l", "i", "g", "h", "t", "h", "e", "a", "d", "e", "d">>,
         <<"v", "e", "r", "t", "i", "g", "o">>>>]
  >>

\* prefixes_to_remove of _clean_symptom_text, in list order
prefixes_to_remove ==
  <<<<"i", " ", "h", "a", "v", "e">>,
    <<"i", " ", "a", "m", " ", "e", "x", "p", "e", "r", "i", "e", "n", "c", "i", "n", "g">>,
    <<"i", " ", "f", "e", "e", "l">>,
    <<"i", " ", "g", "o", "t">>,
    <<"i", "'", "m", " ", "h", "a", "v", "i", "n", "g">>>>

\* text_lower[len(prefix):].strip() for the first prefix, from index i on,
\* that text_lower starts with; text_lower itself when there is none
RECURSIVE remove_first_prefix(_, _)
remove_first_prefix(text_lower, i) ==
  IF i > Len(prefixes_to_remove) THEN text_lower
  ELSE IF startswith(text_lower, prefixes_to_remove[i])
    THEN strip(SubSeq(text_lower, Len(prefixes_to_remove[i]) + 1, Len(text_lower)))
    ELSE remove_first_prefix(text_lower, i + 1)

\* MedicalLogic._clean_symptom_text
_clean_symptom_text(text) ==
  LET text_lower == remove_first_prefix(strip(lower(text)), 1)
  IN  IF text_lower # <<>> THEN capitalize(text_lower) ELSE text

\* the symptom_type of the first group, from group g on, one of whose
\* patterns occurs in message_lower; <<>> when no group has one
RECURSIVE first_matching_group(_, _)
first_matching_group(message_lower, g) ==
  IF g > Len(symptom_patterns) THEN <<>>
  ELSE IF \E p \in 1..Len(symptom_patterns[g].patterns) :
            contains(symptom_patterns[g].patterns[p], message_lower)
    THEN symptom_patterns[g].symptom_type
    ELSE first_matching_group(message_lower, g + 1)

\* MedicalLogic._extract_symptom
_extract_symptom(message) ==
  LET symptom_type == first_matching_group(lower(message), 1)
  IN  IF symptom_type # <<>> THEN symptom_type ELSE _clean_symptom_text(message)

\* MedicalLogic._normalize_message
_normalize_message(message) ==
  LET spaced == collapse_whitespace(strip(message))
      words  == replace(replace(spaced, <<"y", "e", "s">>, <<"y", "e", "s">>),
                        <<"n", "o">>, <<"n", "o">>)
  IN  replace(replace(words, <<"y">>, <<"y", "e", "s">>), <<"n">>, <<"n", "o">>)

(***************************************************************************)
(* Bot messages.  A text the provider generated is opaque: it is kept as   *)
(* the request it answers.  A fallback question is its fixed text, a       *)
(* fallback diagnosis the template's two arguments.                        *)
(***************************************************************************)
BotMessage(kind, text, symptom, question_number, answers) ==
  [kind |-> kind, text |-> text, symptom |-> symptom,
   question_number |-> question_number, answers |-> answers]

NoMessage ==
  BotMessage("none", "", <<>>, 0, <<>>)

\* what the text-generation call does: returns a text, returns '', returns
\* None, or raises
ProviderOutcomes ==
  {"text", "empty", "none", "raise"}

\* MedicalLogic._generate_follow_up_question: the generated question, or
\* NoMessage for a falsy result (None, '' or an exception turned into None)
_generate_follow_up_question(symptom, question_number, previous_answers, outcome) ==
  IF outcome = "text"
    THEN BotMessage("generated_question", "", symptom, question_number, previous_answers)
    ELSE NoMessage

\* fault: the questions of position 1 whatever the position asked
_get_fallback_question_ForFirst(symptom, question_number) ==
  BotMessage("fallback_question",
             "How long have you been experiencing this symptom?", <<>>, 0, <<>>)

\* fault: a number without an entry gets the last entry's first question
_get_fallback_question_LastForOthers(symptom, question_number) ==
  BotMessage("fallback_question",
             IF question_number = 1
               THEN "How long have you been experiencing this symptom?"
             ELSE IF question_number = 2
               THEN "Are you experiencing any other symptoms along with this?"
             ELSE "How is this affecting your daily activities?",
             <<>>, 0, <<>>)

\* MedicalLogic._get_fallback_question
_get_fallback_question(symptom, question_number) ==
  LET questions ==
        CASE question_number = 1 ->
               <<"How long have you been experiencing this symptom?",
                 "Can you describe the severity of your symptoms?",
                 "When did you first notice this problem?">>
          [] question_number = 2 ->
               <<"Are you experiencing any other symptoms along with this?",
                 "Have you taken any medication or tried any treatments?",
                 "What makes your symptoms better or worse?">>
          [] question_number = 3 ->
               <<"How is this affecting your daily activities?",
                 "Have you experienced something similar before?",
                 "Is there anything else you'd like me to know about your condition?">>
          [] OTHER -> <<"How are you feeling now?">>
  IN  BotMessage("fallback_question", questions[1], <<>>, 0, <<>>)

\* MedicalLogic._get_fallback_diagnosis
_get_fallback_diagnosis(symptom, answers) ==
  BotMessage("fallback_diagnosis", "", symptom, 0, answers)

\* MedicalLogic._generate_diagnosis
_generate_diagnosis(symptom, answers, outcome) ==
  IF outcome = "text"
    THEN BotMessage("generated_diagnosis", "", symptom, 0, answers)
    ELSE _get_fallback_diagnosis(symptom, answers)

\* MedicalLogic._create_error_response: its bot_message
error_message ==
  BotMessage("error",
             "I'm sorry, I'm having trouble processing your message right now. Please try again or consult a healthcare professional for immediate assistance.",
             <<>>, 0, <<>>)


(***************************************************************************)
(* The state.                                                              *)
(***************************************************************************)
VARIABLES
  now,            \* datetime.utcnow(), in hours
  conversations,  \* ConversationManager.conversations: session id -> dict reference
  dicts,          \* the conversation state dicts alive: reference -> dict
  lists,          \* the 'answers' lists alive: reference -> list of str
  req,            \* the request handlers: their position and local variables
  started,        \* number of chat turns that passed validation so far
  reset_from,     \* history: "" unless the last store operation on the session id
                  \* was a reset, and then what the reset found there
  turns,          \* history: turns processed on each session since it was created or
                  \* reset, each to a question or to a diagnosis
  follow_ups,     \* history: the messages of those turns that were follow-up turns
  conversation_history,  \* AudioConversationService.conversation_history
  audio_turn,     \* the callers of the audio service: their position and local variables
  audio_started,  \* number of audio turns started so far
  applied,        \* a helper applied on its own: its arguments and what it gave
  response_cache, \* app.response_cache: cache key -> reply text
  ai_req          \* the handler of /api/ai-response: its position and local variables

\* the state of the text chat and of the session store
chat_vars ==
  <<now, conversations, dicts, lists, req, started, reset_from, turns, follow_ups>>

\* the state of the audio service
audio_vars ==
  <<conversation_history, audio_turn, audio_started>>

\* the state of the one-shot AI response endpoint
cache_vars ==
  <<response_cache, ai_req>>

vars ==
  <<chat_vars, audio_vars, applied, cache_vars>>

\* session ids, in a fixed order; 'default' is the one a request without
\* session_id gets
SessionOrder ==
  <<"default", "s1">>

Sessions ==
  {SessionOrder[i] : i \in DOMAIN SessionOrder}

\* handler threads
Requests ==
  {1, 2}

\* the amounts of time (hours) that pass between two steps
TickSteps ==
  {24, 25}

\* messages of chat requests, as the client sent them
RawMessages ==
  { <<"I", " ", "h", "a", "v", "e", " ", "a", " ", "h", "e", "a", "d", "a", "c", "h", "e">>,
    <<"2", " ", " ", "d", "a", "y", "s", " ">>,
    <<" ", " ">> }

\* JSON bodies of chat requests: with a message, or without the key
ChatBodies ==
  [message : RawMessages, session_id : Sessions] \cup [session_id : Sessions]

NoRef ==
  0

DictRefs ==
  1..(Cardinality(Sessions) + Cardinality(Requests) + 1)

ListRefs ==
  1..(Cardinality(Sessions) + Cardinality(Requests) + 1)

\* The heap as one value: the store's mapping and the objects alive.
Heap ==
  [conversations |-> conversations, dicts |-> dicts, lists |-> lists]

\* the value of the dict that ref refers to, its answers list read through
Value(H, ref) ==
  [H.dicts[ref] EXCEPT !.answers = H.lists[H.dicts[ref].answers]]

(***************************************************************************)
(* ConversationManager.                                                    *)
(***************************************************************************)
\* self.expiry_hours
expiry_hours ==
  24

\* fault: the new dict refers to a list that exists already (one list
\* object shared by the states created)
_create_new_conversation_SharedList(H) ==
  LET d == CHOOSE x \in DictRefs \ DOMAIN H.dicts :
             \A y \in DictRefs \ DOMAIN H.dicts : x <= y
      l == IF DOMAIN H.lists # {}
             THEN CHOOSE x \in DOMAIN H.lists : \A y \in DOMAIN H.lists : x <= y
             ELSE CHOOSE x \in ListRefs : \A y \in ListRefs : x <= y
  IN  [heap |-> [H EXCEPT
                   !.dicts = (d :> [question_number |-> 0,
                                    is_complete     |-> FALSE,
                                    initial_symptom |-> <<>>,
                                    answers         |-> l,
                                    created_at      |-> now,
                                    last_updated    |-> now]) @@ @,
                   !.lists = IF l \in DOMAIN H.lists THEN @ ELSE (l :> <<>>) @@ @],
       ref  |-> d]

\* ConversationManager._create_new_conversation: a new dict holding a new
\* empty list; the heap with both, and the dict's reference
_create_new_conversation(H) ==
  LET d == CHOOSE x \in DictRefs \ DOMAIN H.dicts :
             \A y \in DictRefs \ DOMAIN H.dicts : x <= y
      l == CHOOSE x \in ListRefs \ DOMAIN H.lists :
             \A y \in ListRefs \ DOMAIN H.lists : x <= y
  IN  [heap |-> [H EXCEPT
                   !.dicts = (d :> [question_number |-> 0,
                                    is_complete     |-> FALSE,
                                    initial_symptom |-> <<>>,
                                    answers         |-> l,
                                    created_at      |-> now,
                                    last_updated    |-> now]) @@ @,
                   !.lists = (l :> <<>>) @@ @],
       ref  |-> d]

\* fault: line 70 with >= for >
_is_conversation_expired_AtBoundary(conversation) ==
  IF "last_updated" \notin DOMAIN conversation \/ conversation.last_updated \notin Int
    THEN TRUE
    ELSE now >= conversation.last_updated + expiry_hours

\* ConversationManager._is_conversation_expired
_is_conversation_expired(conversation) ==
  IF "last_updated" \notin DOMAIN conversation \/ conversation.last_updated \notin Int
    THEN TRUE
    ELSE now > conversation.last_updated + expiry_hours

\* fault: the expiry check of lines 30-33 left out
get_conversation_NoExpiry(H, session_id) ==
  IF session_id \notin DOMAIN H.conversations
    THEN LET new == _create_new_conversation(H)
         IN  [heap |-> [new.heap EXCEPT
                          !.conversations = (session_id :> new.ref) @@ @],
              ref  |-> new.ref]
    ELSE [heap |-> H, ref |-> H.conversations[session_id]]

\* fault: line 28 returning the new state without storing it
get_conversation_NoStore(H, session_id) ==
  IF session_id \notin DOMAIN H.conversations
    THEN _create_new_conversation(H)
    ELSE IF _is_conversation_expired(H.dicts[H.conversations[session_id]])
      THEN LET new == _create_new_conversation(H)
           IN  [heap |-> [new.heap EXCEPT
                            !.conversations = (session_id :> new.ref) @@ @],
                ref  |-> new.ref]
      ELSE [heap |-> H, ref |-> H.conversations[session_id]]

\* ConversationManager.get_conversation: the heap afterwards and the
\* reference returned
get_conversation(H, session_id) ==
  IF session_id \notin DOMAIN H.conversations
    THEN LET new == _create_new_conversation(H)
         IN  [heap |-> [new.heap EXCEPT
                          !.conversations = (session_id :> new.ref) @@ @],
              ref  |-> new.ref]
    ELSE IF _is_conversation_expired(H.dicts[H.conversations[session_id]])
      THEN LET new == _create_new_conversation(H)
           IN  [heap |-> [new.heap EXCEPT
                            !.conversations = (session_id :> new.ref) @@ @],
                ref  |-> new.ref]
      ELSE [heap |-> H, ref |-> H.conversations[session_id]]

\* fault: a merge, created_at of the state stored before is kept
update_conversation_Merge(H, session_id, new_state) ==
  LET d == CHOOSE x \in DictRefs \ DOMAIN H.dicts :
             \A y \in DictRefs \ DOMAIN H.dicts : x <= y
  IN  [H EXCEPT
         !.dicts = (d :> [H.dicts[new_state] EXCEPT
                            !.last_updated = now,
                            !.created_at =
                               IF session_id \in DOMAIN H.conversations
                                 THEN H.dicts[H.conversations[session_id]].created_at
                                 ELSE @]) @@ @,
         !.conversations = (session_id :> d) @@ @]

\* fault: a newly created state is stored in place of new_state
update_conversation_StoresNew(H, session_id, new_state) ==
  LET new == _create_new_conversation(H)
  IN  [new.heap EXCEPT !.conversations = (session_id :> new.ref) @@ @]

\* ConversationManager.update_conversation: new_state.copy() is a new dict
\* with the same values, so it refers to the same answers list
update_conversation(H, session_id, new_state) ==
  LET d == CHOOSE x \in DictRefs \ DOMAIN H.dicts :
             \A y \in DictRefs \ DOMAIN H.dicts : x <= y
  IN  [H EXCEPT
         !.dicts = (d :> [H.dicts[new_state] EXCEPT !.last_updated = now]) @@ @,
         !.conversations = (session_id :> d) @@ @]

\* fault: a state is stored only for a session id that has none
reset_conversation_KeepsExisting(H, session_id) ==
  IF session_id \in DOMAIN H.conversations
    THEN H
    ELSE LET new == _create_new_conversation(H)
         IN  [new.heap EXCEPT !.conversations = (session_id :> new.ref) @@ @]

\* ConversationManager.reset_conversation
reset_conversation(H, session_id) ==
  LET new == _create_new_conversation(H)
  IN  [new.heap EXCEPT !.conversations = (session_id :> new.ref) @@ @]

\* fault: the filter of line 82 left out
get_all_sessions_All(H) ==
  [heap |-> H,
   active_sessions |-> [s \in DOMAIN H.conversations |-> H.conversations[s]]]

\* ConversationManager.get_all_sessions: the heap afterwards and the dict
\* returned, from session ids to the stored dicts themselves
get_all_sessions(H) ==
  [heap |-> H,
   active_sessions |->
     [s \in {x \in DOMAIN H.conversations :
               ~_is_conversation_expired(H.dicts[H.conversations[x]])} |->
        H.conversations[s]]]

\* fault: a state is also removed when it was last updated exactly
\* expiry_hours before
cleanup_expired_sessions_AtBoundary(H) ==
  LET expired_sessions ==
        {s \in DOMAIN H.conversations :
           now >= H.dicts[H.conversations[s]].last_updated + expiry_hours}
  IN  [heap |-> [H EXCEPT !.conversations =
                   [s \in DOMAIN H.conversations \ expired_sessions |->
                      H.conversations[s]]],
       count |-> Cardinality(expired_sessions)]

\* ConversationManager.cleanup_expired_sessions: the heap afterwards and
\* the count returned
cleanup_expired_sessions(H) ==
  LET expired_sessions ==
        {s \in DOMAIN H.conversations :
           _is_conversation_expired(H.dicts[H.conversations[s]])}
  IN  [heap |-> [H EXCEPT !.conversations =
                   [s \in DOMAIN H.conversations \ expired_sessions |->
                      H.conversations[s]]],
       count |-> Cardinality(expired_sessions)]


(***************************************************************************)
(* Request handlers (app.py) and the flow engine's steps                   *)
(* (MedicalLogic.process_message).  A handler is a sequence of steps; the  *)
(* text-generation call is a blocking network call, so a handler's steps   *)
(* before it and after it are separate.                                    *)
(***************************************************************************)
Response(status, error, bot_message, session_id, question_number, is_complete, state) ==
  [status |-> status, error |-> error, bot_message |-> bot_message,
   session_id |-> session_id, question_number |-> question_number,
   is_complete |-> is_complete, state |-> state]

NoResponse ==
  Response(0, "", NoMessage, "", 0, FALSE, <<>>)

NoCall ==
  [symptom |-> <<>>, question_number |-> 0, answers |-> <<>>]

\* A handler's local variables.  get_kind, stored_age, found and after_reset
\* are history: what get_conversation did, how many hours before the call
\* the state it found was last updated (-1: none was stored), what kind of
\* state that was, and reset_from of the session then.  incoming is history
\* too: the value of the state as process_message is given it.
IdleRequest ==
  [pc                 |-> "idle",
   handler            |-> "",
   session_id         |-> "",
   user_message       |-> <<>>,
   normalized_message |-> <<>>,
   conversation_state |-> NoRef,
   current_question   |-> 0,
   next_question_num  |-> 0,
   call               |-> NoCall,
   bot_message        |-> NoMessage,
   response           |-> NoResponse,
   get_kind           |-> "",
   stored_age         |-> -1,
   found              |-> "",
   after_reset        |-> "",
   active_sessions    |-> <<>>,
   cleaned            |-> 0,
   incoming           |-> <<>>]

\* every handler thread is idle
Quiet ==
  \A r \in Requests : req[r].pc = "idle"

\* a request is taken by the first idle handler thread
Accepts(r) ==
  /\ req[r].pc = "idle"
  /\ \A q \in Requests : req[q].pc = "idle" => r <= q

\* the references of roots other than NoRef, each once, in the order of
\* their first occurrence
Distinct(roots) ==
  LET firsts == {i \in DOMAIN roots :
                   roots[i] # NoRef /\ \A j \in 1..(i - 1) : roots[j] # roots[i]}
  IN  [k \in 1..Cardinality(firsts) |->
         roots[CHOOSE i \in firsts : Cardinality({j \in firsts : j <= i}) = k]]

IndexOf(seq, x) ==
  CHOOSE k \in DOMAIN seq : seq[k] = x

\* The next state's heap and handlers.  Python's reference counting: a dict
\* lives while the store or a handler refers to it, a list while a living
\* dict refers to it.  The objects alive are numbered in the order in which
\* the store (by session id) and then the handlers refer to them: which
\* reference an object has is not observable.
Install(H, rq) ==
  \E h \in {H} : \E rs \in {rq} :
  \E liveD \in {Distinct([i \in 1..(Len(SessionOrder) + Cardinality(Requests)) |->
                  IF i <= Len(SessionOrder)
                    THEN IF SessionOrder[i] \in DOMAIN h.conversations
                           THEN h.conversations[SessionOrder[i]] ELSE NoRef
                    ELSE rs[i - Len(SessionOrder)].conversation_state])} :
  \E liveL \in {Distinct([k \in DOMAIN liveD |-> h.dicts[liveD[k]].answers])} :
    /\ conversations' = [s \in DOMAIN h.conversations |->
                          IndexOf(liveD, h.conversations[s])]
    /\ dicts' = [k \in DOMAIN liveD |->
                   [h.dicts[liveD[k]] EXCEPT !.answers = IndexOf(liveL, @)]]
    /\ lists' = [k \in DOMAIN liveL |-> h.lists[liveL[k]]]
    /\ req' = [r \in Requests |->
                 [rs[r] EXCEPT !.conversation_state =
                                 IF @ = NoRef THEN NoRef ELSE IndexOf(liveD, @)]]

\* what get_conversation did for session_id: created (absent before),
\* replaced (expired before) or kept
GetKind(H, session_id) ==
  IF session_id \notin DOMAIN H.conversations THEN "created"
  ELSE IF _is_conversation_expired(H.dicts[H.conversations[session_id]]) THEN "replaced"
  ELSE "kept"

\* history: hours since the stored state of session_id was last updated
StoredAge(session_id) ==
  IF session_id \in DOMAIN conversations
    THEN now - dicts[conversations[session_id]].last_updated
    ELSE -1

\* history: what is stored for session_id
Found(session_id) ==
  IF session_id \notin DOMAIN conversations THEN "absent"
  ELSE IF StoredAge(session_id) > 24 THEN "expired"
  ELSE IF dicts[conversations[session_id]].is_complete THEN "complete"
  ELSE IF dicts[conversations[session_id]].question_number > 0 THEN "in_progress"
  ELSE "fresh"

\* the history of session_id starts again when its state is created anew
Restart(session_id, reset, anew) ==
  /\ reset_from' = [reset_from EXCEPT ![session_id] = reset]
  /\ turns' = IF anew THEN [turns EXCEPT ![session_id] = 0] ELSE turns
  /\ follow_ups' = IF anew THEN [follow_ups EXCEPT ![session_id] = <<>>] ELSE follow_ups

\* chat(), lines 141-152: validation, then get_conversation
Chat(r, data) ==
  /\ Accepts(r)
  /\ IF "message" \notin DOMAIN data
       THEN /\ Install(Heap, [req EXCEPT ![r] = [IdleRequest EXCEPT
                 !.pc = "responded", !.handler = "chat",
                 !.response = Response(400, "Message is required", NoMessage,
                                       "", 0, FALSE, <<>>)]])
            /\ UNCHANGED <<audio_vars, applied, cache_vars, now, started, reset_from, turns, follow_ups>>
       ELSE IF strip(data.message) = <<>>
         THEN /\ Install(Heap, [req EXCEPT ![r] = [IdleRequest EXCEPT
                   !.pc = "responded", !.handler = "chat",
                   !.response = Response(400, "Message cannot be empty", NoMessage,
                                         "", 0, FALSE, <<>>)]])
              /\ UNCHANGED <<audio_vars, applied, cache_vars, now, started, reset_from, turns, follow_ups>>
         ELSE LET got == get_conversation(Heap, data.session_id)
                  kind == GetKind(Heap, data.session_id)
              IN  /\ started < MaxTurns
                  /\ started' = started + 1
                  /\ Install(got.heap, [req EXCEPT ![r] = [IdleRequest EXCEPT
                       !.pc = "got", !.handler = "chat",
                       !.session_id = data.session_id,
                       !.user_message = strip(data.message),
                       !.conversation_state = got.ref,
                       !.incoming = <<Value(got.heap, got.ref)>>,
                       !.get_kind = kind,
                       !.stored_age = StoredAge(data.session_id),
                       !.found = Found(data.session_id),
                       !.after_reset = reset_from[data.session_id]]])
                  /\ Restart(data.session_id, "", kind # "kept")
                  /\ UNCHANGED <<audio_vars, applied, cache_vars, now>>

\* the handler's steps of process_message are under way
Processing(r) ==
  req[r].pc \in {"initial", "follow_up", "first_question", "diagnosis", "next_question"}

\* process_message, lines 45-51: normalize, then branch on question_number
\* (the history of the handler's get_conversation ends here)
ProcessMessage(r) ==
  /\ req[r].pc = "got"
  /\ Install(Heap, [req EXCEPT ![r] = [@ EXCEPT
       !.get_kind = "", !.stored_age = -1, !.found = "", !.after_reset = "",
       !.normalized_message = _normalize_message(req[r].user_message),
       !.pc = IF dicts[req[r].conversation_state].question_number = 0
                THEN "initial" ELSE "follow_up"]])
  /\ UNCHANGED <<audio_vars, applied, cache_vars, now, started, reset_from, turns, follow_ups>>

\* fault: line 64 left out, question_number is not set
InitialSymptomState_NoNumber(state, symptom) ==
  [state EXCEPT !.initial_symptom = symptom]

\* fault: line 63 left out, the symptom the state had is kept
InitialSymptomState_KeepsSymptom(state, symptom) ==
  [state EXCEPT !.question_number = 1]

\* _handle_initial_symptom, lines 63-64: the dict after the two assignments
InitialSymptomState(state, symptom) ==
  [state EXCEPT !.initial_symptom = symptom, !.question_number = 1]

\* _handle_initial_symptom, lines 62-67, up to the text-generation call
HandleInitialSymptom(r) ==
  /\ req[r].pc = "initial"
  /\ LET ref == req[r].conversation_state
         symptom == _extract_symptom(req[r].normalized_message)
     IN  Install([Heap EXCEPT !.dicts[ref] = InitialSymptomState(@, symptom)],
                 [req EXCEPT ![r] = [@ EXCEPT
                    !.pc = "first_question",
                    !.call = [symptom |-> symptom, question_number |-> 1,
                              answers |-> <<>>]]])
  /\ UNCHANGED <<audio_vars, applied, cache_vars, now, started, reset_from, turns, follow_ups>>

\* fault: the tests of lines 69 and 106 left out
QuestionOrFallback_NoFallback(call, outcome, symptom) ==
  _generate_follow_up_question(call.symptom, call.question_number,
                               call.answers, outcome)

\* the question a handler returns: the generated one, or the fallback
QuestionOrFallback(call, outcome, symptom) ==
  LET question == _generate_follow_up_question(call.symptom, call.question_number,
                                               call.answers, outcome)
  IN  IF question = NoMessage
        THEN _get_fallback_question(symptom, call.question_number)
        ELSE question

\* _handle_initial_symptom, lines 67-75, from the return of the call
FirstQuestionReturned(r, outcome) ==
  /\ req[r].pc = "first_question"
  /\ Install(Heap, [req EXCEPT ![r] = [@ EXCEPT
       !.pc = "processed",
       !.bot_message = QuestionOrFallback(req[r].call, outcome, req[r].call.symptom)]])
  /\ turns' = [turns EXCEPT ![req[r].session_id] = @ + 1]
  /\ UNCHANGED <<audio_vars, applied, cache_vars, now, started, reset_from, follow_ups>>

\* fault: line 87 with > for >=
MaxQuestionsReached_Late(current_question) ==
  current_question > max_questions

\* _handle_follow_up_response, line 87
MaxQuestionsReached(current_question) ==
  current_question >= max_questions

\* fault: line 84 inserting at the front
AppendAnswer_Front(answers, message) ==
  <<message>> \o answers

\* fault: line 84 left out
AppendAnswer_Nothing(answers, message) ==
  answers

\* _handle_follow_up_response, line 84: the list after the append
AppendAnswer(answers, message) ==
  Append(answers, message)

\* _handle_follow_up_response, lines 81-104, up to the text-generation call
HandleFollowUpResponse(r) ==
  /\ req[r].pc = "follow_up"
  /\ LET ref == req[r].conversation_state
         current_question == dicts[ref].question_number
         l == dicts[ref].answers
         H == [Heap EXCEPT !.lists[l] = AppendAnswer(@, req[r].normalized_message)]
     IN  IF MaxQuestionsReached(current_question)
           THEN Install(H, [req EXCEPT ![r] = [@ EXCEPT
                  !.pc = "diagnosis",
                  !.current_question = current_question,
                  !.call = [symptom |-> dicts[ref].initial_symptom,
                            question_number |-> 0,
                            answers |-> H.lists[l]]]])
           ELSE Install(H, [req EXCEPT ![r] = [@ EXCEPT
                  !.pc = "next_question",
                  !.current_question = current_question,
                  !.next_question_num = current_question + 1,
                  !.call = [symptom |-> dicts[ref].initial_symptom,
                            question_number |-> current_question + 1,
                            answers |-> H.lists[l]]]])
  /\ follow_ups' = [follow_ups EXCEPT ![req[r].session_id] = Append(@, req[r].user_message)]
  /\ UNCHANGED <<audio_vars, applied, cache_vars, now, started, reset_from, turns>>

\* fault: question_number is advanced as well
CompletedState_Advances(state) ==
  [state EXCEPT !.is_complete = TRUE, !.question_number = @ + 1]

\* _handle_follow_up_response, line 90
CompletedState(state) ==
  [state EXCEPT !.is_complete = TRUE]

\* fault: the state is marked complete only when a diagnosis was generated
DiagnosisReturned_CompleteOnSuccess(r, outcome) ==
  /\ req[r].pc = "diagnosis"
  /\ LET ref == req[r].conversation_state
         diagnosis ==
           IF outcome = "text"
             THEN _generate_diagnosis(req[r].call.symptom, req[r].call.answers, outcome)
             ELSE _generate_diagnosis(dicts[ref].initial_symptom,
                                      lists[dicts[ref].answers], outcome)
     IN  Install([Heap EXCEPT !.dicts[ref] =
                    IF outcome = "text" THEN CompletedState(@) ELSE @],
                 [req EXCEPT ![r] = [@ EXCEPT !.pc = "processed",
                                              !.bot_message = diagnosis]])
  /\ turns' = [turns EXCEPT ![req[r].session_id] = @ + 1]
  /\ UNCHANGED <<audio_vars, applied, cache_vars, now, started, reset_from, follow_ups>>

\* _handle_follow_up_response, lines 89-95, from the return of the call;
\* the fallback diagnosis reads the state as it is then
DiagnosisReturned(r, outcome) ==
  /\ req[r].pc = "diagnosis"
  /\ LET ref == req[r].conversation_state
         diagnosis ==
           IF outcome = "text"
             THEN _generate_diagnosis(req[r].call.symptom, req[r].call.answers, outcome)
             ELSE _generate_diagnosis(dicts[ref].initial_symptom,
                                      lists[dicts[ref].answers], outcome)
     IN  Install([Heap EXCEPT !.dicts[ref] = CompletedState(@)],
                 [req EXCEPT ![r] = [@ EXCEPT !.pc = "processed",
                                              !.bot_message = diagnosis]])
  /\ turns' = [turns EXCEPT ![req[r].session_id] = @ + 1]
  /\ UNCHANGED <<audio_vars, applied, cache_vars, now, started, reset_from, follow_ups>>

\* fault: line 109 left out, question_number is not advanced
AdvancedState_Stuck(state, next_question_num) ==
  state

\* _handle_follow_up_response, line 109
AdvancedState(state, next_question_num) ==
  [state EXCEPT !.question_number = next_question_num]

\* _handle_follow_up_response, lines 99-114, from the return of the call
NextQuestionReturned(r, outcome) ==
  /\ req[r].pc = "next_question"
  /\ LET ref == req[r].conversation_state
     IN  Install([Heap EXCEPT !.dicts[ref] = AdvancedState(@, req[r].next_question_num)],
                 [req EXCEPT ![r] = [@ EXCEPT
                    !.pc = "processed",
                    !.bot_message = QuestionOrFallback(req[r].call, outcome,
                                                       dicts[ref].initial_symptom)]])
  /\ turns' = [turns EXCEPT ![req[r].session_id] = @ + 1]
  /\ UNCHANGED <<audio_vars, applied, cache_vars, now, started, reset_from, follow_ups>>

\* process_message, lines 53-55: an exception raised at the handler's
\* current step is caught; _create_error_response returns the fixed message
\* and the dict it was given, as it is by then
ProcessMessageFails(r) ==
  /\ req[r].pc = "got" \/ Processing(r)
  /\ Install(Heap, [req EXCEPT ![r] = [@ EXCEPT
       !.get_kind = "", !.stored_age = -1, !.found = "", !.after_reset = "",
       !.pc = "processed",
       !.bot_message = error_message]])
  /\ UNCHANGED <<audio_vars, applied, cache_vars, now, started, reset_from, turns, follow_ups>>

\* chat(), lines 160-168: update_conversation, then the response built from
\* the state process_message returned
UpdateConversation(r) ==
  /\ req[r].pc = "processed"
  /\ LET ref == req[r].conversation_state
     IN  Install(update_conversation(Heap, req[r].session_id, ref),
                 [req EXCEPT ![r] = [@ EXCEPT
                    !.pc = "responded",
                    !.response = Response(200, "", req[r].bot_message,
                                          req[r].session_id,
                                          dicts[ref].question_number,
                                          dicts[ref].is_complete, <<>>)]])
  /\ UNCHANGED <<audio_vars, applied, cache_vars, now, started, reset_from, turns, follow_ups>>

\* reset_conversation(), app.py lines 175-186
ResetConversation(r, session_id) ==
  /\ Accepts(r)
  /\ Install(reset_conversation(Heap, session_id),
             [req EXCEPT ![r] = [IdleRequest EXCEPT
                !.pc = "responded", !.handler = "reset",
                !.session_id = session_id,
                !.response = Response(200, "", NoMessage, session_id, 0, FALSE, <<>>)]])
  /\ Restart(session_id, Found(session_id), TRUE)
  /\ UNCHANGED <<audio_vars, applied, cache_vars, now, started>>

\* get_conversation_status(), app.py lines 193-201
GetConversationStatus(r, session_id) ==
  /\ Accepts(r)
  /\ LET got == get_conversation(Heap, session_id)
         kind == GetKind(Heap, session_id)
     IN  /\ Install(got.heap,
                    [req EXCEPT ![r] = [IdleRequest EXCEPT
                       !.pc = "responded", !.handler = "status",
                       !.session_id = session_id,
                       !.conversation_state = got.ref,
                       !.get_kind = kind,
                       !.stored_age = StoredAge(session_id),
                       !.found = Found(session_id),
                       !.after_reset = reset_from[session_id],
                       !.response = Response(200, "", NoMessage, session_id, 0, FALSE,
                                             <<Value(got.heap, got.ref)>>)]])
         /\ Restart(session_id, "", kind # "kept")
  /\ UNCHANGED <<audio_vars, applied, cache_vars, now, started>>

\* timestamps of the states a caller passes to update_conversation
InputTimes ==
  {0, 24}

\* the states a caller passes to update_conversation
StateInputs ==
  UNION {{ [question_number |-> 0, is_complete |-> FALSE,
            initial_symptom |-> <<>>, answers |-> <<>>,
            created_at |-> t, last_updated |-> t],
           [question_number |-> 2, is_complete |-> FALSE,
            initial_symptom |-> <<"c", "o", "u", "g", "h">>,
            answers |-> << <<"n", "o">> >>,
            created_at |-> 0, last_updated |-> t],
           [question_number |-> 3, is_complete |-> TRUE,
            initial_symptom |-> <<"c", "o", "u", "g", "h">>,
            answers |-> << <<"n", "o">>, <<"2">>, <<"n", "o">> >>,
            created_at |-> 0, last_updated |-> t] } : t \in InputTimes}

\* a caller of the store builds new_state and calls
\* update_conversation(session_id, new_state); it holds new_state until it
\* returns
Update(r, session_id, new_state) ==
  /\ Accepts(r)
  /\ LET d == CHOOSE x \in DictRefs \ DOMAIN dicts :
                \A y \in DictRefs \ DOMAIN dicts : x <= y
         l == CHOOSE x \in ListRefs \ DOMAIN lists :
                \A y \in ListRefs \ DOMAIN lists : x <= y
         built == [Heap EXCEPT
                     !.lists = (l :> new_state.answers) @@ @,
                     !.dicts = (d :> [new_state EXCEPT !.answers = l]) @@ @]
     IN  Install(update_conversation(built, session_id, d),
                 [req EXCEPT ![r] = [IdleRequest EXCEPT
                    !.pc = "responded", !.handler = "update",
                    !.session_id = session_id,
                    !.conversation_state = d,
                    !.stored_age = StoredAge(session_id),
                    !.found = Found(session_id)]])
  /\ reset_from' = [reset_from EXCEPT ![session_id] = ""]
  /\ UNCHANGED <<audio_vars, applied, cache_vars, now, started, turns, follow_ups>>

\* what a caller may do to the new_state it still holds once
\* update_conversation has returned: assign a field, or append to its list
CallerChanges ==
  {"assign", "append"}

\* the caller changes the dict it passed to update_conversation
CallerChangesState(r, change) ==
  /\ req[r].handler = "update"
  /\ req[r].pc = "responded"
  /\ LET ref == req[r].conversation_state
         l == dicts[ref].answers
         H == IF change = "assign"
                THEN [Heap EXCEPT !.dicts[ref].question_number = @ + 1]
                ELSE [Heap EXCEPT !.lists[l] = Append(@, <<"l", "a", "t", "e", "r">>)]
     IN  Install(H, [req EXCEPT ![r] = [@ EXCEPT !.handler = "caller"]])
  /\ UNCHANGED <<audio_vars, applied, cache_vars, now, started, reset_from, turns, follow_ups>>

\* a caller of the store calls get_all_sessions(); active_sessions is the
\* dict returned, each stored dict read through
GetAllSessions(r) ==
  /\ Accepts(r)
  /\ LET got == get_all_sessions(Heap)
     IN  Install(got.heap,
                 [req EXCEPT ![r] = [IdleRequest EXCEPT
                    !.pc = "responded", !.handler = "list",
                    !.active_sessions =
                       [s \in DOMAIN got.active_sessions |->
                          Value(got.heap, got.active_sessions[s])]]])
  /\ UNCHANGED <<audio_vars, applied, cache_vars, now, started, reset_from, turns, follow_ups>>

\* a caller of the store calls cleanup_expired_sessions(); cleaned is the
\* count returned
CleanupExpiredSessions(r) ==
  /\ Accepts(r)
  /\ LET done == cleanup_expired_sessions(Heap)
     IN  Install(done.heap,
                 [req EXCEPT ![r] = [IdleRequest EXCEPT
                    !.pc = "responded", !.handler = "cleanup",
                    !.cleaned = done.count]])
  /\ reset_from' = [s \in Sessions |->
                      IF s \in DOMAIN conversations /\ StoredAge(s) > expiry_hours
                        THEN "" ELSE reset_from[s]]
  /\ UNCHANGED <<audio_vars, applied, cache_vars, now, started, turns, follow_ups>>

\* the response is sent and the handler thread is idle again
Respond(r) ==
  /\ req[r].pc = "responded"
  /\ Install(Heap, [req EXCEPT ![r] = IdleRequest])
  /\ UNCHANGED <<audio_vars, applied, cache_vars, now, started, reset_from, turns, follow_ups>>

\* time passes
Tick(d) ==
  /\ now + d <= MaxTime
  /\ now' = now + d
  /\ UNCHANGED <<audio_vars, applied, cache_vars, conversations, dicts, lists, req, started, reset_from, turns,
               follow_ups>>

(***************************************************************************)
(* AudioConversationService.  An audio turn is a sequence of steps, one    *)
(* for each blocking provider call.  The n-th audio submitted is heard as  *)
(* Transcript(n), answered by Reply(n) and spoken as Speech(n): texts and  *)
(* audio are opaque, and those of different turns differ.                  *)
(***************************************************************************)
\* callers of the audio service
Callers ==
  {1, 2}

\* the two call shapes: process_audio_conversation and
\* process_audio_conversation_from_bytes
Shapes ==
  {"path", "bytes"}

\* what a provider call does: returns a value, returns nothing (None or an
\* empty value), or raises
StageOutcomes ==
  {"ok", "nothing", "raise"}

Transcript(n) ==
  <<"heard", n>>

Reply(n) ==
  <<"reply", n>>

Speech(n) ==
  <<"mp3", n>>

\* the result dict as lines 45-51 and 117-123 build it; audio_field is the
\* name of its fourth key
InitialResult(shape) ==
  [success          |-> FALSE,
   transcribed_text |-> <<>>,
   ai_response      |-> <<>>,
   audio_field      |-> IF shape = "path" THEN "audio_response_path"
                                          ELSE "audio_response_bytes",
   audio            |-> <<>>,
   error            |-> ""]

\* fault: the oldest 20 entries are kept
_update_conversation_history_KeepsOldest(history, user_input, ai_response) ==
  LET appended == history \o <<[role |-> "user", content |-> user_input],
                               [role |-> "assistant", content |-> ai_response]>>
  IN  IF Len(appended) > 20 THEN SubSeq(appended, 1, 20) ELSE appended

\* fault: the last 19 entries are kept
_update_conversation_history_KeepsNineteen(history, user_input, ai_response) ==
  LET appended == history \o <<[role |-> "user", content |-> user_input],
                               [role |-> "assistant", content |-> ai_response]>>
  IN  IF Len(appended) > 20
        THEN SubSeq(appended, Len(appended) - 18, Len(appended))
        ELSE appended

\* fault: the test of line 221 left out
_update_conversation_history_NoCap(history, user_input, ai_response) ==
  history \o <<[role |-> "user", content |-> user_input],
               [role |-> "assistant", content |-> ai_response]>>

\* AudioConversationService._update_conversation_history: the history
\* afterwards
_update_conversation_history(history, user_input, ai_response) ==
  LET appended == history \o <<[role |-> "user", content |-> user_input],
                               [role |-> "assistant", content |-> ai_response]>>
  IN  IF Len(appended) > 20
        THEN SubSeq(appended, Len(appended) - 19, Len(appended))
        ELSE appended

\* A caller's local variables in an audio turn.  calls, history_before,
\* history_sent, failure and tests are history: the stages invoked so far,
\* the history as the turn began, the history passed to text generation, the
\* stage that failed with what its call did, and what each connection test
\* of a health check does when it is called.
IdleAudioTurn ==
  [pc               |-> "idle",
   shape            |-> "",
   number           |-> 0,
   transcribed_text |-> <<>>,
   ai_response      |-> <<>>,
   result           |-> InitialResult(""),
   calls            |-> <<>>,
   history_before   |-> <<>>,
   history_sent     |-> <<>>,
   failure          |-> <<>>,
   tests            |-> <<>>]

\* no audio turn is under way
AudioQuiet ==
  \A c \in Callers : audio_turn[c].pc = "idle"

\* lines 45-56 and 117-128: the result dict, then the transcription call
StartAudioTurn(c, shape) ==
  /\ audio_turn[c].pc = "idle"
  /\ \A d \in Callers : audio_turn[d].pc = "idle" => c <= d
  /\ audio_started < MaxAudioTurns
  /\ audio_started' = audio_started + 1
  /\ audio_turn' = [audio_turn EXCEPT ![c] = [IdleAudioTurn EXCEPT
       !.pc = "transcription",
       !.shape = shape,
       !.number = audio_started + 1,
       !.result = InitialResult(shape),
       !.calls = <<"transcription">>,
       !.history_before = conversation_history]]
  /\ UNCHANGED <<chat_vars, applied, cache_vars, conversation_history>>

\* what a provider call that does not raise returns: the value, or
\* nothing (None, '' or b'', here the empty text)
Returned(outcome, value) ==
  IF outcome = "ok" THEN value ELSE <<>>

\* fault: the tests of lines 58, 72 and 83 always pass
Truthy_Always(value) ==
  TRUE

\* Python's truth value of what a provider call returned
Truthy(value) ==
  value # <<>>

\* fault: the transcript obtained is appended to the history
AudioTurnFails_KeepsPartial(c, stage, outcome, error) ==
  /\ audio_turn' = [audio_turn EXCEPT ![c] = [@ EXCEPT
       !.pc = "done",
       !.result = [@ EXCEPT !.error = error],
       !.failure = <<stage, outcome>>]]
  /\ conversation_history' =
       IF audio_turn[c].transcribed_text = <<>>
         THEN conversation_history
         ELSE Append(conversation_history,
                     [role |-> "user", content |-> audio_turn[c].transcribed_text])

\* fault: the result dict is built again, what the stages gave is lost
AudioTurnFails_FreshResult(c, stage, outcome, error) ==
  /\ audio_turn' = [audio_turn EXCEPT ![c] = [@ EXCEPT
       !.pc = "done",
       !.result = [InitialResult(audio_turn[c].shape) EXCEPT !.error = error],
       !.failure = <<stage, outcome>>]]
  /\ UNCHANGED conversation_history

\* the turn ends at the return of lines 60, 74, 85 (a call returned
\* nothing) or 99 (the except branch): the result dict with the error set
AudioTurnFails(c, stage, outcome, error) ==
  /\ audio_turn' = [audio_turn EXCEPT ![c] = [@ EXCEPT
       !.pc = "done",
       !.result = [@ EXCEPT !.error = error],
       !.failure = <<stage, outcome>>]]
  /\ UNCHANGED conversation_history

\* fault: text generation is given the history as it was when the caller's
\* turn began
TranscriptionReturned_SendsOlderHistory(c, outcome) ==
  /\ audio_turn[c].pc = "transcription"
  /\ LET transcribed_text == Returned(outcome, Transcript(audio_turn[c].number))
     IN  IF outcome = "raise"
           THEN AudioTurnFails(c, "transcription", outcome, "Processing error: str(e)")
           ELSE IF ~Truthy(transcribed_text)
             THEN AudioTurnFails(c, "transcription", outcome, "Failed to transcribe audio")
             ELSE /\ audio_turn' = [audio_turn EXCEPT ![c] = [@ EXCEPT
                       !.pc = "response-generation",
                       !.transcribed_text = transcribed_text,
                       !.result = [@ EXCEPT !.transcribed_text = transcribed_text],
                       !.calls = Append(@, "response-generation"),
                       !.history_sent = audio_turn[c].history_before]]
                  /\ UNCHANGED conversation_history
  /\ UNCHANGED <<chat_vars, applied, cache_vars, audio_started>>

\* lines 56-70 and 128-142, from the return of the transcription call to the
\* text-generation call
TranscriptionReturned(c, outcome) ==
  /\ audio_turn[c].pc = "transcription"
  /\ LET transcribed_text == Returned(outcome, Transcript(audio_turn[c].number))
     IN  IF outcome = "raise"
           THEN AudioTurnFails(c, "transcription", outcome, "Processing error: str(e)")
           ELSE IF ~Truthy(transcribed_text)
             THEN AudioTurnFails(c, "transcription", outcome, "Failed to transcribe audio")
             ELSE /\ audio_turn' = [audio_turn EXCEPT ![c] = [@ EXCEPT
                       !.pc = "response-generation",
                       !.transcribed_text = transcribed_text,
                       !.result = [@ EXCEPT !.transcribed_text = transcribed_text],
                       !.calls = Append(@, "response-generation"),
                       !.history_sent = conversation_history]]
                  /\ UNCHANGED conversation_history
  /\ UNCHANGED <<chat_vars, applied, cache_vars, audio_started>>

\* lines 67-81 and 139-153, from the return of the text-generation call to
\* the text-to-speech call
GenerationReturned(c, outcome) ==
  /\ audio_turn[c].pc = "response-generation"
  /\ LET ai_response == Returned(outcome, Reply(audio_turn[c].number))
     IN  IF outcome = "raise"
           THEN AudioTurnFails(c, "response-generation", outcome,
                               "Processing error: str(e)")
           ELSE IF ~Truthy(ai_response)
             THEN AudioTurnFails(c, "response-generation", outcome,
                                 "Failed to generate AI response")
             ELSE /\ audio_turn' = [audio_turn EXCEPT ![c] = [@ EXCEPT
                       !.pc = "speech-synthesis",
                       !.ai_response = ai_response,
                       !.result = [@ EXCEPT !.ai_response = ai_response],
                       !.calls = Append(@, "speech-synthesis")]]
                  /\ UNCHANGED conversation_history
  /\ UNCHANGED <<chat_vars, applied, cache_vars, audio_started>>

\* what the third stage hands to the orchestrator: the bytes shape calls
\* text_to_speech itself (line 153), so an exception reaches the except
\* branch of the turn; the path shape goes through _generate_audio_response
\* (lines 183-201), which returns the path for truthy audio data and None
\* for falsy data or an exception
SynthesisExit(shape, outcome) ==
  IF outcome = "raise" /\ shape = "bytes" THEN "raise"
  ELSE IF outcome = "ok" THEN "ok"
  ELSE "nothing"

\* the error a turn failing at the third stage reports (lines 84 and 156,
\* or the except branch of lines 96-99 and 168-171)
SynthesisError(shape, outcome) ==
  IF SynthesisExit(shape, outcome) = "raise"
    THEN "Processing error: str(e)"
    ELSE "Failed to generate audio response"

\* fault: the path shape returns without recording the exchange
SynthesisReturned_PathSkipsHistory(c, outcome) ==
  /\ audio_turn[c].pc = "speech-synthesis"
  /\ LET audio == Returned(outcome, Speech(audio_turn[c].number))
     IN  IF SynthesisExit(audio_turn[c].shape, outcome) # "ok"
           THEN AudioTurnFails(c, "speech-synthesis", outcome,
                               SynthesisError(audio_turn[c].shape, outcome))
           ELSE /\ audio_turn' = [audio_turn EXCEPT ![c] = [@ EXCEPT
                     !.pc = "done",
                     !.result = [@ EXCEPT !.audio = audio, !.success = TRUE]]]
                /\ conversation_history' =
                     IF audio_turn[c].shape = "path"
                       THEN conversation_history
                       ELSE _update_conversation_history(conversation_history,
                                                         audio_turn[c].transcribed_text,
                                                         audio_turn[c].ai_response)
  /\ UNCHANGED <<chat_vars, applied, cache_vars, audio_started>>

\* lines 81-94 and 153-166: the third stage returned or raised; with audio
\* in hand the exchange is recorded and the turn succeeds
SynthesisReturned(c, outcome) ==
  /\ audio_turn[c].pc = "speech-synthesis"
  /\ LET audio == Returned(outcome, Speech(audio_turn[c].number))
     IN  IF SynthesisExit(audio_turn[c].shape, outcome) # "ok" \/ ~Truthy(audio)
           THEN AudioTurnFails(c, "speech-synthesis", outcome,
                               SynthesisError(audio_turn[c].shape, outcome))
           ELSE /\ audio_turn' = [audio_turn EXCEPT ![c] = [@ EXCEPT
                     !.pc = "done",
                     !.result = [@ EXCEPT !.audio = audio, !.success = TRUE]]]
                /\ conversation_history' =
                     _update_conversation_history(conversation_history,
                                                  audio_turn[c].transcribed_text,
                                                  audio_turn[c].ai_response)
  /\ UNCHANGED <<chat_vars, applied, cache_vars, audio_started>>

\* the caller has the result dict
AudioTurnReturns(c) ==
  /\ audio_turn[c].pc = "done"
  /\ audio_turn' = [audio_turn EXCEPT ![c] = IdleAudioTurn]
  /\ UNCHANGED <<chat_vars, applied, cache_vars, conversation_history, audio_started>>

\* the three services, in the order test_all_services tests them
Services ==
  <<"azure_speech", "groq_client", "elevenlabs_service">>

\* what a test_connection call does: it returns True, returns False or raises
TestOutcomes ==
  {"true", "false", "raise"}

\* AudioConversationService.test_all_services: results starts all False; the
\* three assignments of lines 246-248 are inside one try, so the first test
\* that raises ends them and the later services keep False
test_all_services(tests) ==
  LET reached(i) == \A j \in 1..(i - 1) : tests[Services[j]] # "raise"
  IN  [s \in {Services[i] : i \in 1..3} |->
         \E i \in 1..3 : /\ Services[i] = s
                          /\ reached(i)
                          /\ tests[s] = "true"]

\* a caller runs test_all_services and has its results
TestAllServices(c, tests) ==
  /\ audio_turn[c].pc = "idle"
  /\ \A d \in Callers : audio_turn[d].pc = "idle" => c <= d
  /\ audio_turn' = [audio_turn EXCEPT ![c] = [IdleAudioTurn EXCEPT
       !.pc = "tested",
       !.result = test_all_services(tests),
       !.history_before = conversation_history,
       !.tests = tests]]
  /\ UNCHANGED <<chat_vars, applied, cache_vars, conversation_history, audio_started>>

\* the caller is done with the results of the health check
TestAllServicesReturns(c) ==
  /\ audio_turn[c].pc = "tested"
  /\ audio_turn' = [audio_turn EXCEPT ![c] = IdleAudioTurn]
  /\ UNCHANGED <<chat_vars, applied, cache_vars, conversation_history, audio_started>>

\* AudioConversationService.clear_conversation_history
ClearConversationHistory ==
  /\ conversation_history # <<>>
  /\ conversation_history' = <<>>
  /\ UNCHANGED <<chat_vars, applied, cache_vars, audio_turn, audio_started>>


(***************************************************************************)
(* The helpers of MedicalLogic applied on their own: an argument is drawn, *)
(* then the helper is applied to it.                                       *)
(***************************************************************************)
\* largest magnitude of the question numbers drawn
MaxQuestionNumber ==
  5

\* the question numbers a caller may pass to _get_fallback_question
QuestionNumbers ==
  (0 - MaxQuestionNumber)..MaxQuestionNumber

\* how a first message may begin, as typed
LeadIns ==
  { <<>>,
    <<"I", " ", "h", "a", "v", "e", " ">>,
    <<"I", " ", "F", "E", "E", "L", " ">>,
    <<"i", " ", "g", "o", "t", " ">>,
    <<"I", "'", "m", " ", "h", "a", "v", "i", "n", "g", " ">>,
    <<"I", " ", "a", "m", " ", "e", "x", "p", "e", "r", "i", "e", "n", "c", "i", "n", "g", " ">>,
    <<"w", "e", "l", "l", " ", "i", " ", "h", "a", "v", "e", " ">> }

\* what a first message may go on to say, as typed
Complaints ==
  { <<"a", " ", "h", "e", "a", "d", "a", "c", "h", "e">>,
    <<"n", "a", "u", "s", "e", "a">>,
    <<"f", "e", "v", "e", "r", " ", "a", "n", "d", " ", "a", " ", "c", "o", "u", "g", "h">>,
    <<"a", " ", "c", "o", "u", "g", "h", " ", "a", "n", "d", " ", "f", "e", "v", "e", "r">>,
    <<"a", " ", "R", "a", "s", "h">>,
    <<"i", "t", "c", "h", "y", " ", "s", "k", "i", "n">>,
    <<"b", "u", "r", "n", "i", "n", "g", " ", "u", "p">>,
    <<"a", " ", "m", "i", "g", "r", "a", "i", "n", "e">>,
    <<"w", "e", "a", "k", " ", "l", "e", "g", "s">>,
    <<"a", " ", "s", "o", "r", "e", " ", " ", "t", "h", "r", "o", "a", "t", " ">>,
    <<"b", "l", "u", "r", "r", "e", "d", " ", "s", "i", "g", "h", "t">>,
    <<"D", "i", "z", "z", "y", " ", "s", "p", "e", "l", "l", "s">>,
    <<"s", "w", "o", "l", "l", "e", "n", " ", "f", "e", "e", "t">> }

\* first messages: a beginning followed by a complaint
FirstMessages ==
  {l \o c : l \in LeadIns, c \in Complaints}

\* no helper has been applied
NoApplication ==
  [pc |-> "none", function |-> "", arguments |-> <<>>, output |-> <<>>]

\* a helper with the arguments drawn for it, not applied yet
Drawn(function, arguments) ==
  [pc |-> "drawn", function |-> function, arguments |-> arguments, output |-> <<>>]

\* the applications that can be drawn
Applications ==
  {Drawn("_get_fallback_question", <<symptom, n>>) :
     symptom \in {symptom_patterns[1].symptom_type, <<"A", " ", "r", "a", "s", "h">>},
     n \in QuestionNumbers}
  \cup {Drawn("_extract_symptom", <<message>>) : message \in FirstMessages}

\* _get_fallback_question(symptom, question_number) is called
GetFallbackQuestion ==
  /\ applied.pc = "drawn"
  /\ applied.function = "_get_fallback_question"
  /\ applied' = [applied EXCEPT
       !.pc = "applied",
       !.output = _get_fallback_question(applied.arguments[1], applied.arguments[2])]
  /\ UNCHANGED <<chat_vars, audio_vars, cache_vars>>

\* the classification of a first message: process_message normalizes it
\* (line 45) and _handle_initial_symptom extracts the symptom from the
\* normalized message (line 62)
ExtractSymptom ==
  /\ applied.pc = "drawn"
  /\ applied.function = "_extract_symptom"
  /\ applied' = [applied EXCEPT
       !.pc = "applied",
       !.output = _extract_symptom(_normalize_message(applied.arguments[1]))]
  /\ UNCHANGED <<chat_vars, audio_vars, cache_vars>>


(***************************************************************************)
(* The one-shot endpoint /api/ai-response and its response cache.          *)
(***************************************************************************)
\* the 'message' values sent to the endpoint
AiMessages ==
  { <<"F", "e", "v", "e", "r">>,
    <<"f", "e", "v", "e", "r", " ">>,
    <<" ", "F", "E", "V", "E", "R">>,
    <<"C", "o", "u", "g", "h">>,
    <<"c", "o", "u", "g", "h">>,
    <<" ", " ">> }

\* bodies of the requests: with a message, or without the key
AiBodies ==
  [message : AiMessages] \cup {[language |-> "en"]}

\* what groq_client.generate_response returns: a text, '', or None (it
\* catches every exception of the call)
AiOutcomes ==
  {"text", "empty", "none"}

\* line 91: f"ai_response_{user_message.lower().strip()}"
cache_key(user_message) ==
  <<"ai_response_">> \o strip(lower(user_message))

\* the text the provider generates for the prompt of lines 102-115, which
\* quotes user_message
GeneratedText(user_message) ==
  [kind |-> "generated", user_message |-> user_message]

\* line 128: "Thank you for describing your symptoms: {user_message}. ..."
FallbackText(user_message) ==
  [kind |-> "fallback", user_message |-> user_message]

NoText ==
  [kind |-> "none", user_message |-> <<>>]

AiReply(status, error, response, ai_generated, cached) ==
  [status |-> status, error |-> error, response |-> response,
   ai_generated |-> ai_generated, cached |-> cached]

\* The handler's local variables.  called is history: whether the handler
\* called the provider.
IdleAiRequest ==
  [pc |-> "idle", user_message |-> <<>>, cache_key |-> <<>>, called |-> FALSE,
   reply |-> AiReply(0, "", NoText, FALSE, FALSE)]

\* ai_response, lines 77-115: validation, then the cache lookup; a hit is
\* answered from the cache, a miss goes on to the provider
AiResponse(data) ==
  /\ ai_req.pc = "idle"
  /\ IF "message" \notin DOMAIN data
       THEN ai_req' = [IdleAiRequest EXCEPT
              !.pc = "responded",
              !.reply = AiReply(400, "Message is required", NoText, FALSE, FALSE)]
       ELSE IF strip(data.message) = <<>>
         THEN ai_req' = [IdleAiRequest EXCEPT
                !.pc = "responded",
                !.reply = AiReply(400, "Message cannot be empty", NoText, FALSE, FALSE)]
         ELSE LET user_message == strip(data.message)
                  key == cache_key(user_message)
              IN  IF key \in DOMAIN response_cache
                    THEN ai_req' = [IdleAiRequest EXCEPT
                           !.pc = "responded",
                           !.user_message = user_message,
                           !.cache_key = key,
                           !.reply = AiReply(200, "", response_cache[key], TRUE, TRUE)]
                    ELSE ai_req' = [IdleAiRequest EXCEPT
                           !.pc = "generating",
                           !.user_message = user_message,
                           !.cache_key = key]
  /\ UNCHANGED <<chat_vars, audio_vars, applied, response_cache>>

\* fault: the fallback reply is stored in the cache too
AiGenerationReturned_CachesFallback(outcome) ==
  /\ ai_req.pc = "generating"
  /\ LET text == IF outcome = "text"
                   THEN GeneratedText(ai_req.user_message)
                   ELSE FallbackText(ai_req.user_message)
     IN  /\ response_cache' =
              [k \in DOMAIN response_cache \cup {ai_req.cache_key} |->
                 IF k = ai_req.cache_key THEN text ELSE response_cache[k]]
         /\ ai_req' = [ai_req EXCEPT
              !.pc = "responded",
              !.called = TRUE,
              !.reply = AiReply(200, "", text, outcome = "text", FALSE)]
  /\ UNCHANGED <<chat_vars, audio_vars, applied>>

\* ai_response, lines 117-131: generate_response returned; a text is stored
\* under the key and answered, '' or None is answered by the fallback reply
AiGenerationReturned(outcome) ==
  /\ ai_req.pc = "generating"
  /\ IF outcome = "text"
       THEN LET ai_response_text == GeneratedText(ai_req.user_message)
            IN  /\ response_cache' =
                     [k \in DOMAIN response_cache \cup {ai_req.cache_key} |->
                        IF k = ai_req.cache_key
                          THEN ai_response_text
                          ELSE response_cache[k]]
                /\ ai_req' = [ai_req EXCEPT
                     !.pc = "responded",
                     !.called = TRUE,
                     !.reply = AiReply(200, "", ai_response_text, TRUE, FALSE)]
       ELSE /\ response_cache' = response_cache
            /\ ai_req' = [ai_req EXCEPT
                 !.pc = "responded",
                 !.called = TRUE,
                 !.reply = AiReply(200, "", FallbackText(ai_req.user_message),
                                   FALSE, FALSE)]
  /\ UNCHANGED <<chat_vars, audio_vars, applied>>

\* the reply is sent; the handler takes the next request
AiRespond ==
  /\ ai_req.pc = "responded"
  /\ ai_req' = IdleAiRequest
  /\ UNCHANGED <<chat_vars, audio_vars, applied, response_cache>>


(***************************************************************************)
(* Specifications.  Spec: requests are handled one after another.          *)
(***************************************************************************)
\* the module-level objects of app.py as constructed
Constructed ==
  /\ now = 0
  /\ conversations = <<>>
  /\ dicts = <<>>
  /\ lists = <<>>
  /\ req = [r \in Requests |-> IdleRequest]
  /\ started = 0
  /\ reset_from = [s \in Sessions |-> ""]
  /\ turns = [s \in Sessions |-> 0]
  /\ follow_ups = [s \in Sessions |-> <<>>]
  /\ conversation_history = <<>>
  /\ audio_turn = [c \in Callers |-> IdleAudioTurn]
  /\ audio_started = 0
  /\ response_cache = <<>>
  /\ ai_req = IdleAiRequest

Init ==
  /\ Constructed
  /\ applied = NoApplication

Next ==
  \/ \E r \in Requests, data \in ChatBodies : Quiet /\ Chat(r, data)
  \/ \E r \in Requests, s \in Sessions : Quiet /\ ResetConversation(r, s)
  \/ \E r \in Requests, s \in Sessions : Quiet /\ GetConversationStatus(r, s)
  \/ \E r \in Requests : ProcessMessage(r)
  \/ \E r \in Requests : HandleInitialSymptom(r)
  \/ \E r \in Requests, outcome \in ProviderOutcomes : FirstQuestionReturned(r, outcome)
  \/ \E r \in Requests : HandleFollowUpResponse(r)
  \/ \E r \in Requests, outcome \in ProviderOutcomes : DiagnosisReturned(r, outcome)
  \/ \E r \in Requests, outcome \in ProviderOutcomes : NextQuestionReturned(r, outcome)
  \/ \E r \in Requests : UpdateConversation(r)
  \/ \E r \in Requests : Respond(r)
  \/ \E d \in TickSteps : Tick(d)

Spec ==
  Init /\ [][Next]_vars

\* SpecFault: chat turns handled one after another, where any step of
\* process_message may raise an exception that no inner handler catches
\* (MemoryError, RecursionError, an error raised while logging).
NextFault ==
  \/ \E r \in Requests, data \in ChatBodies : Quiet /\ Chat(r, data)
  \/ \E r \in Requests : ProcessMessage(r)
  \/ \E r \in Requests : HandleInitialSymptom(r)
  \/ \E r \in Requests, outcome \in ProviderOutcomes : FirstQuestionReturned(r, outcome)
  \/ \E r \in Requests : HandleFollowUpResponse(r)
  \/ \E r \in Requests, outcome \in ProviderOutcomes : DiagnosisReturned(r, outcome)
  \/ \E r \in Requests, outcome \in ProviderOutcomes : NextQuestionReturned(r, outcome)
  \/ \E r \in Requests : ProcessMessageFails(r)
  \/ \E r \in Requests : UpdateConversation(r)
  \/ \E r \in Requests : Respond(r)

SpecFault ==
  Init /\ [][NextFault]_vars

\* SpecAudio: one AudioConversationService, its audio turns made one after
\* another and its history cleared between them.
NextAudio ==
  \/ \E c \in Callers, shape \in Shapes : AudioQuiet /\ StartAudioTurn(c, shape)
  \/ \E c \in Callers, outcome \in StageOutcomes : TranscriptionReturned(c, outcome)
  \/ \E c \in Callers, outcome \in StageOutcomes : GenerationReturned(c, outcome)
  \/ \E c \in Callers, outcome \in StageOutcomes : SynthesisReturned(c, outcome)
  \/ \E c \in Callers : AudioTurnReturns(c)
  \/ \E c \in Callers, tests \in [{Services[i] : i \in 1..3} -> TestOutcomes] :
       AudioQuiet /\ TestAllServices(c, tests)
  \/ \E c \in Callers : TestAllServicesReturns(c)
  \/ AudioQuiet /\ ClearConversationHistory

SpecAudio ==
  Init /\ [][NextAudio]_vars

\* SpecAudioRace: the one AudioConversationService of app.py serves two
\* callers at once, the steps of their turns interleaving.
NextAudioRace ==
  \/ \E c \in Callers, shape \in Shapes :
       audio_started < MaxAudioRaceTurns /\ StartAudioTurn(c, shape)
  \/ \E c \in Callers, outcome \in StageOutcomes : TranscriptionReturned(c, outcome)
  \/ \E c \in Callers, outcome \in StageOutcomes : GenerationReturned(c, outcome)
  \/ \E c \in Callers, outcome \in StageOutcomes : SynthesisReturned(c, outcome)
  \/ \E c \in Callers : AudioTurnReturns(c)
  \/ ClearConversationHistory

SpecAudioRace ==
  Init /\ [][NextAudioRace]_vars

\* SpecSessions: chat turns, resets and status queries on any session id
\* handled by two threads at once; with MaxSessionTurns turns started no
\* session gets as far as its diagnosis.
SessionBodies ==
  {data \in ChatBodies : "message" \in DOMAIN data /\ strip(data.message) # <<>>}

NextSessions ==
  \/ \E r \in Requests, data \in SessionBodies :
       started < MaxSessionTurns /\ Chat(r, data)
  \/ \E r \in Requests, s \in Sessions : ResetConversation(r, s)
  \/ \E r \in Requests, s \in Sessions : GetConversationStatus(r, s)
  \/ \E r \in Requests : ProcessMessage(r)
  \/ \E r \in Requests : HandleInitialSymptom(r)
  \/ \E r \in Requests, outcome \in ProviderOutcomes : FirstQuestionReturned(r, outcome)
  \/ \E r \in Requests : HandleFollowUpResponse(r)
  \/ \E r \in Requests, outcome \in ProviderOutcomes : NextQuestionReturned(r, outcome)
  \/ \E r \in Requests : UpdateConversation(r)
  \/ \E r \in Requests : Respond(r)

SpecSessions ==
  Init /\ [][NextSessions]_vars

\* SpecRace: chat turns on one session id handled by two threads at once;
\* the server takes a request whenever a thread is idle, and the steps of
\* the two handlers interleave freely.
RaceBodies ==
  {data \in ChatBodies : /\ "message" \in DOMAIN data
                         /\ strip(data.message) # <<>>
                         /\ data.session_id = SessionOrder[1]}

NextRace ==
  \/ \E r \in Requests, data \in RaceBodies :
       started < MaxRaceTurns /\ Chat(r, data)
  \/ \E r \in Requests : ProcessMessage(r)
  \/ \E r \in Requests : HandleInitialSymptom(r)
  \/ \E r \in Requests, outcome \in ProviderOutcomes : FirstQuestionReturned(r, outcome)
  \/ \E r \in Requests : HandleFollowUpResponse(r)
  \/ \E r \in Requests, outcome \in ProviderOutcomes : DiagnosisReturned(r, outcome)
  \/ \E r \in Requests, outcome \in ProviderOutcomes : NextQuestionReturned(r, outcome)
  \/ \E r \in Requests : UpdateConversation(r)
  \/ \E r \in Requests : Respond(r)

SpecRace ==
  Init /\ [][NextRace]_vars

\* SpecCache: requests to /api/ai-response, handled one after another
NextCache ==
  \/ \E data \in AiBodies : AiResponse(data)
  \/ \E outcome \in AiOutcomes : AiGenerationReturned(outcome)
  \/ AiRespond

SpecCache ==
  Init /\ [][NextCache]_vars

\* SpecPure: a helper of MedicalLogic is applied to arguments drawn from
\* the sets above.
InitPure ==
  /\ Constructed
  /\ applied \in Applications

NextPure ==
  \/ GetFallbackQuestion
  \/ ExtractSymptom

SpecPure ==
  InitPure /\ [][NextPure]_vars

\* SpecStore: the ConversationManager alone, its methods called one after
\* another by any caller.
NextStore ==
  \/ \E r \in Requests, s \in Sessions : Quiet /\ GetConversationStatus(r, s)
  \/ \E r \in Requests, s \in Sessions : Quiet /\ ResetConversation(r, s)
  \/ \E r \in Requests, s \in Sessions, new_state \in StateInputs :
       Quiet /\ Update(r, s, new_state)
  \/ \E r \in Requests, change \in CallerChanges : CallerChangesState(r, change)
  \/ \E r \in Requests : Quiet /\ GetAllSessions(r)
  \/ \E r \in Requests : Quiet /\ CleanupExpiredSessions(r)
  \/ \E r \in Requests : Respond(r)
  \/ \E d \in TickSteps : Tick(d)

SpecStore ==
  Init /\ [][NextStore]_vars


(***************************************************************************)
(* Properties.                                                             *)
(***************************************************************************)
\* no chat turn on session id s is between its get_conversation and the
\* return of process_message
AtRest(s) ==
  \A r \in Requests : req[r].session_id = s => req[r].pc \notin {"got"} /\ ~Processing(r)

\* the state stored for session id s
Stored(s) ==
  Value(Heap, conversations[s])

\* the state the handler r holds (the one get_conversation returned)
Held(r) ==
  Value(Heap, req[r].conversation_state)

\* a chat turn that process_message has returned from
Processed(r) ==
  req[r].handler = "chat" /\ req[r].pc \in {"processed", "responded"} /\ req[r].response.status # 400

\* C1: the first chat turn on a fresh session starts from question_number 0
\* and leaves question_number exactly 1 (in the state process_message
\* returns, in the stored state after update and in the response),
\* whatever the message and whatever the provider returns.
C1_FirstTurnLeavesOne ==
  \A r \in Requests :
    /\ (req[r].pc = "got" /\ turns[req[r].session_id] = 0)
         => Held(r).question_number = 0
    /\ (Processed(r) /\ turns[req[r].session_id] = 1)
         => /\ Held(r).question_number = 1
            /\ req[r].pc = "responded"
                 => /\ Stored(req[r].session_id).question_number = 1
                    /\ req[r].response.question_number = 1

\* a first turn whose provider call failed has been answered
C1_Witness ==
  \E r \in Requests :
    /\ Processed(r) /\ req[r].pc = "responded"
    /\ turns[req[r].session_id] = 1
    /\ req[r].response.bot_message.kind = "fallback_question"
    /\ Stored(req[r].session_id).question_number = 1

IsDiagnosis(m) ==
  m.kind \in {"generated_diagnosis", "fallback_diagnosis"}

IsQuestion(m) ==
  m.kind \in {"generated_question", "fallback_question"}

\* C2: turns processed one after another on a fresh session: is_complete is
\* false after each of the first three processed turns and true after the
\* fourth, whose bot message is the diagnosis; the first three ask a
\* question.
C2_CompleteOnFourthTurn ==
  /\ \A s \in DOMAIN conversations :
       AtRest(s) =>
         /\ turns[s] <= max_questions => ~Stored(s).is_complete
         /\ turns[s] = max_questions + 1 => Stored(s).is_complete
  /\ \A r \in Requests :
       Processed(r) =>
         /\ turns[req[r].session_id] <= max_questions
              => ~Held(r).is_complete /\ IsQuestion(req[r].bot_message)
         /\ turns[req[r].session_id] = max_questions + 1
              => Held(r).is_complete /\ IsDiagnosis(req[r].bot_message)

\* the fourth turn has been answered with a fallback diagnosis
C2_Witness ==
  \E r \in Requests :
    /\ Processed(r) /\ req[r].pc = "responded"
    /\ turns[req[r].session_id] = max_questions + 1
    /\ req[r].response.is_complete
    /\ req[r].response.bot_message.kind = "fallback_diagnosis"
    /\ Stored(req[r].session_id).is_complete

\* C3: the answers of a stored session are the messages of the follow-up
\* turns processed on it since it was created, reset or replaced, one per
\* turn and in the order of the turns (each as process_message normalized
\* it).
C3_AnswersAreFollowUps ==
  \A s \in DOMAIN conversations :
    /\ Len(Stored(s).answers) = Len(follow_ups[s])
    /\ \A i \in 1..Len(follow_ups[s]) :
         Stored(s).answers[i] = _normalize_message(follow_ups[s][i])

\* two different answers, in the order given, are stored
C3_Witness ==
  \E s \in DOMAIN conversations :
    /\ Len(Stored(s).answers) >= 2
    /\ Stored(s).answers[1] # Stored(s).answers[2]
    /\ Len(follow_ups[s]) >= 2

\* C4, as claimed: in every session state between turns with
\* question_number >= 1, the state after the diagnosis turn included,
\* len(answers) = question_number - 1.
C4_Original ==
  \A s \in DOMAIN conversations :
    (AtRest(s) /\ Stored(s).question_number >= 1)
      => Len(Stored(s).answers) = Stored(s).question_number - 1

\* C4, amended: between turns, len(answers) = question_number - 1 while the
\* session is not complete; once it is complete question_number is still
\* max_questions and answers holds at least as many answers.
C4_AnswersBehindQuestion ==
  \A s \in DOMAIN conversations :
    (AtRest(s) /\ Stored(s).question_number >= 1) =>
      IF Stored(s).is_complete
        THEN /\ Stored(s).question_number = max_questions
             /\ Len(Stored(s).answers) >= max_questions
        ELSE Len(Stored(s).answers) = Stored(s).question_number - 1

\* the third question has been asked and two answers are stored
C4_Witness ==
  \E s \in DOMAIN conversations :
    /\ AtRest(s)
    /\ ~Stored(s).is_complete
    /\ Stored(s).question_number = max_questions
    /\ Len(Stored(s).answers) = max_questions - 1


\* the flow fields of a state
FlowFields(state) ==
  <<state.question_number, state.is_complete, state.initial_symptom, state.answers>>

\* C5: once a stored session is complete, no step other than a reset or an
\* expiry replacement changes its question_number, answers, initial_symptom
\* or is_complete.
C5_NoTransitionOnceComplete ==
  [][\A s \in DOMAIN conversations :
       (/\ Stored(s).is_complete
        /\ s \in DOMAIN conversations'
        /\ turns'[s] >= turns[s])
         => FlowFields(Stored(s))' = FlowFields(Stored(s))]_vars

\* C6: question_number is always in 0..max_questions (so never above
\* max_questions + 1), and no step increases the question_number of a
\* complete session.
C6_QuestionNumberBounded ==
  /\ [](\A d \in DOMAIN dicts : dicts[d].question_number \in 0..max_questions)
  /\ [][\A s \in DOMAIN conversations :
          (Stored(s).is_complete /\ s \in DOMAIN conversations')
            => Stored(s)'.question_number <= Stored(s).question_number]_vars

\* a further turn has been processed on a complete session
C6_Witness ==
  \E s \in DOMAIN conversations :
    /\ AtRest(s)
    /\ Stored(s).is_complete
    /\ turns[s] > max_questions + 1
    /\ Stored(s).question_number = max_questions

\* the handler r has called get_conversation and not yet gone on
JustGot(r) ==
  req[r].get_kind # ""

\* a state with the flow fields of a brand-new one
Fresh(state) ==
  /\ state.question_number = 0
  /\ state.is_complete = FALSE
  /\ state.initial_symptom = <<>>
  /\ state.answers = <<>>

\* C7: a get_conversation that finds a state last updated more than 24
\* hours before stores and returns a state equal to a brand-new one; a
\* state without a last_updated counts as expired.
C7_ExpiredIsReplaced ==
  /\ \A r \in Requests :
       (JustGot(r) /\ req[r].stored_age > 24)
         => /\ conversations[req[r].session_id] = req[r].conversation_state
            /\ Fresh(Held(r))
            /\ Held(r).created_at = Held(r).last_updated
            /\ req[r].handler = "status" => Fresh(req[r].response.state[1])
  /\ _is_conversation_expired([question_number |-> 0, created_at |-> now])

\* a chat turn's get_conversation found a state 25 hours old
C7_Witness ==
  \E r \in Requests :
    /\ JustGot(r) /\ req[r].handler = "chat"
    /\ req[r].stored_age > 24
    /\ req[r].get_kind = "replaced"
    /\ req[r].found = "expired"
    /\ Fresh(Held(r))

\* C8: a get_conversation that follows a reset of the same session id
\* returns question_number 0, no answers and is_complete false, whatever
\* the reset found stored.
C8_ResetThenGet ==
  \A r \in Requests :
    (JustGot(r) /\ req[r].after_reset # "")
      => /\ Held(r).question_number = 0
         /\ Held(r).answers = <<>>
         /\ Held(r).is_complete = FALSE

\* a get_conversation followed the reset of a complete session
C8_Witness ==
  \E r \in Requests :
    /\ JustGot(r) /\ req[r].after_reset = "complete"
    /\ Held(r).question_number = 0 /\ Held(r).answers = <<>>

\* C9: every get_conversation (of a chat turn or of a status query) returns
\* a state, which is the one stored for the session id afterwards; for an
\* id that had none it is a new state with question_number 0, is_complete
\* false, no answers and both timestamps now.
C9_GetStores ==
  [][\A r \in Requests :
       (req[r].pc = "idle" /\ req'[r].get_kind # "") =>
         /\ req'[r].conversation_state # NoRef
         /\ req'[r].session_id \in DOMAIN conversations'
         /\ conversations'[req'[r].session_id] = req'[r].conversation_state
         /\ req'[r].session_id \notin DOMAIN conversations
              => Held(r)' = [question_number |-> 0, is_complete |-> FALSE,
                             initial_symptom |-> <<>>, answers |-> <<>>,
                             created_at |-> now, last_updated |-> now]]_vars

\* a status query was the first access to a session id
C9_Witness ==
  \E r \in Requests :
    /\ req[r].handler = "status" /\ req[r].get_kind = "created"
    /\ req[r].session_id \in DOMAIN conversations
    /\ Fresh(Stored(req[r].session_id))

\* C10: an update_conversation(session_id, new_state) leaves stored, for
\* the session id, new_state with last_updated set to now: every other
\* field is new_state's, none is the previously stored state's; so the
\* stored state is always that of the latest update.
C10_UpdateReplaces ==
  [][\A r \in Requests, session_id \in Sessions :
       (/\ req[r].pc = "idle"
        /\ req'[r].handler = "update"
        /\ req'[r].session_id = session_id) =>
         /\ session_id \in DOMAIN conversations'
         /\ Stored(session_id)' = [Held(r)' EXCEPT !.last_updated = now]]_vars

\* an update has replaced a complete state last updated earlier by an
\* incomplete one
C10_Witness ==
  \E r \in Requests :
    /\ req[r].handler = "update"
    /\ req[r].found = "complete" /\ req[r].stored_age > 0
    /\ Stored(req[r].session_id).is_complete = FALSE
    /\ Stored(req[r].session_id).last_updated > Held(r).last_updated
    /\ FlowFields(Stored(req[r].session_id)) = FlowFields(Held(r))


\* the session ids whose stored state was last updated more than 24 hours
\* ago
ExpiredNow ==
  {s \in DOMAIN conversations : now - Stored(s).last_updated > 24}

\* C11: get_all_sessions returns exactly the stored states that are not
\* expired at the call, each under its session id, and leaves the store as
\* it was: the expired ones are still stored, unchanged.
C11_ListActive ==
  [][\A r \in Requests :
       (req[r].pc = "idle" /\ req'[r].handler = "list") =>
         /\ req'[r].active_sessions =
              [s \in DOMAIN conversations \ ExpiredNow |-> Stored(s)]
         /\ DOMAIN conversations' = DOMAIN conversations
         /\ \A s \in DOMAIN conversations : Stored(s)' = Stored(s)]_vars

\* a call returned one stored session and omitted another, which is still
\* stored
C11_Witness ==
  \E r \in Requests :
    /\ req[r].handler = "list"
    /\ DOMAIN req[r].active_sessions # {}
    /\ DOMAIN conversations \ DOMAIN req[r].active_sessions # {}
    /\ \A s \in DOMAIN req[r].active_sessions : Stored(s) = req[r].active_sessions[s]

\* C12: cleanup_expired_sessions removes exactly the sessions expired at the
\* call: afterwards none of them is stored, every other one is stored
\* unchanged, and the count returned is the number removed.
C12_SweepExpired ==
  [][\A r \in Requests :
       (req[r].pc = "idle" /\ req'[r].handler = "cleanup") =>
         /\ DOMAIN conversations' = DOMAIN conversations \ ExpiredNow
         /\ \A s \in DOMAIN conversations' : Stored(s)' = Stored(s)
         /\ ExpiredNow' = {}
         /\ req'[r].cleaned = Cardinality(DOMAIN conversations \ DOMAIN conversations')]_vars

\* a call removed one session and kept the other
C12_Witness ==
  \E r \in Requests :
    /\ req[r].handler = "cleanup"
    /\ req[r].cleaned = 1
    /\ DOMAIN conversations # {}


\* the handler r waits for the text-generation call to return
CallPending(r) ==
  req[r].pc \in {"first_question", "next_question", "diagnosis"}

\* the outcomes of a text-generation call that failed
FailedOutcomes ==
  {"empty", "none", "raise"}

\* the fixed fallback question of each position
FallbackQuestionText(position) ==
  CASE position = 1 -> "How long have you been experiencing this symptom?"
    [] position = 2 -> "Are you experiencing any other symptoms along with this?"
    [] position = 3 -> "How is this affecting your daily activities?"

\* C13: when the text-generation call of a turn fails (returns nothing or
\* raises), the bot message is the fixed fallback question of the position
\* asked (1 on the first turn, question_number + 1 later) or, on the
\* diagnosis turn, the fallback diagnosis made of the state's symptom and
\* answers; and the call is not repeated: its return ends process_message.
C13_FallbackOnFailure ==
  [][\A r \in Requests :
       /\ \A outcome \in FailedOutcomes :
            /\ FirstQuestionReturned(r, outcome) =>
                 /\ req'[r].bot_message.kind = "fallback_question"
                 /\ req'[r].bot_message.text = FallbackQuestionText(1)
            /\ NextQuestionReturned(r, outcome) =>
                 /\ req'[r].bot_message.kind = "fallback_question"
                 /\ req'[r].bot_message.text =
                      FallbackQuestionText(Held(r).question_number + 1)
            /\ DiagnosisReturned(r, outcome) =>
                 /\ req'[r].bot_message.kind = "fallback_diagnosis"
                 /\ req'[r].bot_message.symptom = Held(r).initial_symptom
                 /\ req'[r].bot_message.answers = Held(r).answers
       /\ (CallPending(r) /\ req'[r] # req[r]) => req'[r].pc = "processed"
       /\ (~CallPending(r) /\ CallPending(r)') => req[r].pc \in {"initial", "follow_up"}]_vars

\* a turn has ended with the fallback question of position 3
C13_Witness ==
  \E r \in Requests :
    /\ Processed(r)
    /\ req[r].bot_message.kind = "fallback_question"
    /\ req[r].bot_message.text = FallbackQuestionText(3)
    /\ Held(r).question_number = 3


\* process_message has returned the response of _create_error_response
Failed(r) ==
  /\ req[r].handler = "chat"
  /\ req[r].pc \in {"processed", "responded"}
  /\ req[r].bot_message = error_message

\* C14: when process_message catches an exception, the state it returns with
\* the fixed message has the value of the state it was given: question_number
\* is not advanced and the message is not in answers.
C14_ErrorLeavesState ==
  \A r \in Requests :
    Failed(r) => Held(r) = req[r].incoming[1]


\* a bot message that is not empty: a text the provider generated is one
\* only when it is truthy, the others are fixed texts
NonEmptyMessage(m) ==
  \/ m.kind \in {"generated_question", "generated_diagnosis", "fallback_diagnosis"}
  \/ m.kind \in {"fallback_question", "error"} /\ m.text # ""

\* C15: process_message always returns: each of its steps, whatever the
\* message, the state, the provider's outcome, and whether or not an
\* exception is raised, goes on or ends with a result that holds a non-empty
\* bot message and a state.
C15_AlwaysReturns ==
  /\ [](\A r \in Requests :
          (req[r].handler = "chat" /\ req[r].pc = "processed")
            => /\ NonEmptyMessage(req[r].bot_message)
               /\ req[r].conversation_state \in DOMAIN dicts)
  /\ [][\A r \in Requests :
          ((req[r].pc = "got" \/ Processing(r)) /\ req'[r] # req[r])
            => \/ Processing(r)'
               \/ req'[r].pc = "processed" /\ NonEmptyMessage(req'[r].bot_message)]_vars

\* a turn that failed after question_number was set has returned the fixed
\* message and the state
C15_Witness ==
  \E r \in Requests :
    /\ req[r].pc = "processed"
    /\ req[r].bot_message = error_message
    /\ req[r].incoming[1].question_number = 0
    /\ Held(r).question_number = 1


\* a message made of whitespace only
BlankMessage(message) ==
  \A i \in DOMAIN message : message[i] \in Whitespace

\* C16: a chat request whose message is missing or blank is answered with
\* status 400 in one step, which leaves the store as it was (no session is
\* created, none is changed, no timestamp moves) and calls no provider; and
\* a step that answers 400 never changes the store.
C16_RejectedBeforeMutation ==
  [][\A r \in Requests :
       /\ \A data \in ChatBodies :
            (/\ "message" \notin DOMAIN data \/ BlankMessage(data.message)
             /\ Chat(r, data))
              => /\ req'[r].pc = "responded"
                 /\ req'[r].response.status = 400
                 /\ req'[r].call = NoCall
                 /\ <<conversations, dicts, lists>>' = <<conversations, dicts, lists>>
       /\ (req[r].pc = "idle" /\ req'[r].response.status = 400)
            => <<conversations, dicts, lists>>' = <<conversations, dicts, lists>>]_vars

\* a blank message was rejected while a session in progress was stored
C16_Witness ==
  \E r \in Requests :
    /\ req[r].handler = "chat" /\ req[r].pc = "responded"
    /\ req[r].response.status = 400
    /\ req[r].response.error = "Message cannot be empty"
    /\ \E s \in DOMAIN conversations : Stored(s).question_number = 2


\* the audio turn of caller c has ended in failure
AudioFailed(c) ==
  audio_turn[c].pc = "done" /\ ~audio_turn[c].result.success

\* C17: the conversation history of the audio service never holds more than
\* 20 entries, whatever turns (of either shape, successful or failed) and
\* clears have been made.
C17_HistoryAtMostTwenty ==
  Len(conversation_history) <= 20

\* a turn has succeeded on a history of 20 entries
C17_Witness ==
  \E c \in Callers :
    /\ audio_turn[c].pc = "done" /\ audio_turn[c].result.success
    /\ Len(audio_turn[c].history_before) = 20
    /\ Len(conversation_history) = 20
    /\ conversation_history # audio_turn[c].history_before

\* C18: an audio turn that has failed, at whatever stage and whether the
\* call returned nothing or raised, leaves the history as it was when the
\* turn began.
C18_FailedTurnKeepsHistory ==
  \A c \in Callers :
    AudioFailed(c) => conversation_history = audio_turn[c].history_before

\* a turn has failed at speech synthesis, transcript and reply obtained, on
\* a history that is not empty
C18_Witness ==
  \E c \in Callers :
    /\ AudioFailed(c)
    /\ audio_turn[c].failure[1] = "speech-synthesis"
    /\ audio_turn[c].transcribed_text # <<>> /\ audio_turn[c].ai_response # <<>>
    /\ conversation_history # <<>>


\* the three stages, in the order of the code
Stages ==
  <<"transcription", "response-generation", "speech-synthesis">>

\* C19: within one audio turn the providers are invoked in the order
\* transcription, response generation, speech synthesis, each at most once;
\* response generation only once a transcript is there, speech synthesis
\* only once a reply is there; and the stage that failed is the last one
\* invoked.
C19_StagesInOrder ==
  \A c \in Callers :
    LET calls == audio_turn[c].calls
    IN  /\ Len(calls) <= Len(Stages)
        /\ \A i \in DOMAIN calls : calls[i] = Stages[i]
        /\ Len(calls) >= 2 => audio_turn[c].transcribed_text # <<>>
        /\ Len(calls) >= 3 => audio_turn[c].ai_response # <<>>
        /\ audio_turn[c].pc \in {"transcription", "response-generation", "speech-synthesis"}
             => calls[Len(calls)] = audio_turn[c].pc
        /\ audio_turn[c].failure # <<>>
             => /\ audio_turn[c].pc = "done"
                /\ calls[Len(calls)] = audio_turn[c].failure[1]

\* a turn has failed at response generation: two stages were invoked, the
\* third was not
C19_Witness ==
  \E c \in Callers :
    /\ AudioFailed(c)
    /\ audio_turn[c].failure[1] = "response-generation"
    /\ audio_turn[c].calls = <<"transcription", "response-generation">>

\* C20: the result of a failed audio turn has success false and holds what
\* the stages before the failure gave: neither transcript nor reply when
\* transcription failed, the transcript and an empty reply when response
\* generation failed, transcript and reply when speech synthesis failed.
C20_PartialResultsKept ==
  \A c \in Callers :
    AudioFailed(c) =>
      LET result == audio_turn[c].result
          stage == audio_turn[c].failure[1]
      IN  /\ result.success = FALSE
          /\ result.audio = <<>>
          /\ stage = "transcription" =>
               result.transcribed_text = <<>> /\ result.ai_response = <<>>
          /\ stage = "response-generation" =>
               /\ result.transcribed_text = Transcript(audio_turn[c].number)
               /\ result.ai_response = <<>>
          /\ stage = "speech-synthesis" =>
               /\ result.transcribed_text = Transcript(audio_turn[c].number)
               /\ result.ai_response = Reply(audio_turn[c].number)

\* the text-to-speech call of a bytes turn raised: the result holds the
\* transcript and the reply
C20_Witness ==
  \E c \in Callers :
    /\ AudioFailed(c)
    /\ audio_turn[c].failure = <<"speech-synthesis", "raise">>
    /\ audio_turn[c].shape = "bytes"
    /\ audio_turn[c].result.transcribed_text # <<>>
    /\ audio_turn[c].result.ai_response # <<>>


\* the stage an error message names, "" when it names none
StageNamed(error) ==
  CASE error = "Failed to transcribe audio" -> "transcription"
    [] error = "Failed to generate AI response" -> "response-generation"
    [] error = "Failed to generate audio response" -> "speech-synthesis"
    [] OTHER -> ""

\* C21: the result of every failed audio turn names the stage that failed,
\* whether that stage's call returned nothing or raised.
C21_FailureNamesStage ==
  \A c \in Callers :
    AudioFailed(c) => StageNamed(audio_turn[c].result.error) = audio_turn[c].failure[1]

\* the last n entries of a sequence
LastEntries(seq, n) ==
  IF Len(seq) > n THEN [i \in 1..n |-> seq[Len(seq) - n + i]] ELSE seq

\* C22: after a successful audio turn the history is the last 20 entries of
\* the history before the turn followed by the user entry with the
\* transcript and the assistant entry with the reply.
C22_HistoryAfterSuccess ==
  \A c \in Callers :
    (audio_turn[c].pc = "done" /\ audio_turn[c].result.success)
      => conversation_history =
           LastEntries(audio_turn[c].history_before
                         \o <<[role |-> "user",
                               content |-> audio_turn[c].result.transcribed_text],
                              [role |-> "assistant",
                               content |-> audio_turn[c].result.ai_response]>>,
                       20)

\* a successful turn on a full history has dropped its oldest exchange
C22_Witness ==
  \E c \in Callers :
    /\ audio_turn[c].pc = "done" /\ audio_turn[c].result.success
    /\ Len(audio_turn[c].history_before) = 20
    /\ conversation_history[1] = audio_turn[c].history_before[3]
    /\ conversation_history[20] =
         [role |-> "assistant", content |-> Reply(audio_turn[c].number)]


\* the other call shape
OtherShape(shape) ==
  IF shape = "path" THEN "bytes" ELSE "path"

\* what a finished turn shows besides its audio: written without the shape,
\* from the history as the turn began, the turn's provider values and the
\* stage that failed
ShapeFreeOutcome(c) ==
  LET t == audio_turn[c]
      failed == t.failure # <<>>
      stage == IF failed THEN t.failure[1] ELSE ""
  IN  /\ t.result.success = ~failed
      /\ t.result.transcribed_text =
           (IF stage = "transcription" THEN <<>> ELSE Transcript(t.number))
      /\ t.result.ai_response =
           (IF stage \in {"transcription", "response-generation"}
              THEN <<>> ELSE Reply(t.number))
      /\ conversation_history =
           (IF failed THEN t.history_before
            ELSE _update_conversation_history(t.history_before,
                                              Transcript(t.number), Reply(t.number)))

C26_TestsIndependent ==
  \A c \in Callers :
    audio_turn[c].pc = "tested"
      => /\ \A s \in DOMAIN audio_turn[c].result :
              audio_turn[c].result[s] = (audio_turn[c].tests[s] = "true")
         /\ conversation_history = audio_turn[c].history_before


\* a helper has been applied
Applied(function) ==
  applied.pc = "applied" /\ applied.function = function

\* C24: fallback question selection is total: for every integer question
\* number a question comes back; for 1, 2 and 3 it is the fixed fallback
\* question of that position, for any other number the generic "How are you
\* feeling now?".
C24_FallbackQuestionTotal ==
  Applied("_get_fallback_question")
    => /\ applied.output.kind = "fallback_question"
       /\ applied.output.text =
            (IF applied.arguments[2] \in 1..3
               THEN FallbackQuestionText(applied.arguments[2])
               ELSE "How are you feeling now?")

\* the question for a number below 1 has been asked for
C24_Witness ==
  /\ Applied("_get_fallback_question")
  /\ applied.arguments[2] < 1
  /\ applied.output.text = "How are you feeling now?"

\* the user's message with whitespace runs collapsed and the ends trimmed
WhitespaceNormalized(message) ==
  collapse_whitespace(strip(message))

\* some pattern of keyword group g occurs in the text, whatever the case
GroupOccurs(g, text) ==
  \E p \in 1..Len(symptom_patterns[g].patterns) :
    contains(symptom_patterns[g].patterns[p], lower(text))

\* C27: on a first turn, if a pattern of a keyword group occurs as a
\* case-insensitive substring of the whitespace-normalized message, the
\* symptom is the label of the first group in table order that has one.
C27_FirstGroupWins ==
  Applied("_extract_symptom")
    => \A g \in 1..Len(symptom_patterns) :
         (/\ GroupOccurs(g, WhitespaceNormalized(applied.arguments[1]))
          /\ \A h \in 1..(g - 1) :
               ~GroupOccurs(h, WhitespaceNormalized(applied.arguments[1])))
           => applied.output = symptom_patterns[g].symptom_type

\* the text without the first of the leading phrases it begins with,
\* whatever the case, the remainder trimmed
RECURSIVE WithoutLeadingPhrase(_, _)
WithoutLeadingPhrase(text, i) ==
  IF i > Len(prefixes_to_remove) THEN text
  ELSE IF startswith(lower(text), prefixes_to_remove[i])
    THEN strip(SubSeq(text, Len(prefixes_to_remove[i]) + 1, Len(text)))
    ELSE WithoutLeadingPhrase(text, i + 1)

\* the first character upper-cased, the rest as it is
CapitalizeFirst(text) ==
  IF text = <<>> THEN text ELSE <<upper_char(text[1])>> \o Tail(text)

\* C28: on a first turn whose message matches no keyword group, the symptom
\* is the message with the first matching leading phrase removed from its
\* start and the first character of the remainder capitalized, the rest of
\* the remainder kept as the user wrote it.
C28_UnmatchedIsCleaned ==
  (/\ Applied("_extract_symptom")
   /\ \A g \in 1..Len(symptom_patterns) :
        ~GroupOccurs(g, WhitespaceNormalized(applied.arguments[1])))
    => applied.output =
         CapitalizeFirst(WithoutLeadingPhrase(
                           WhitespaceNormalized(applied.arguments[1]), 1))


\* a processed chat turn that began from a state with question_number 0
FirstTurn(r) ==
  /\ Processed(r)
  /\ req[r].incoming # <<>>
  /\ req[r].incoming[1].question_number = 0

\* C25: symptom classification is deterministic: the initial_symptom a first
\* turn stores is a function of its message alone, whatever the session id,
\* the turns made before on other sessions and the provider's outcome.
C25_SymptomFromMessage ==
  \A r \in Requests :
    FirstTurn(r)
      => Held(r).initial_symptom
           = _extract_symptom(_normalize_message(req[r].user_message))

\* a first turn on a second session, after turns on another one, whose
\* provider call failed
C25_Witness ==
  \E r \in Requests :
    /\ FirstTurn(r)
    /\ req[r].session_id = SessionOrder[2]
    /\ turns[SessionOrder[1]] >= 1
    /\ req[r].bot_message.kind = "fallback_question"
    /\ Held(r).initial_symptom = symptom_patterns[1].symptom_type

\* C29: the answer a follow-up turn appends is the user's message with
\* whitespace runs collapsed and both ends trimmed, no other character
\* added, removed or changed.
C29_AnswerIsWhitespaceNormalized ==
  \A s \in DOMAIN conversations :
    \A i \in 1..Len(follow_ups[s]) :
      i <= Len(Stored(s).answers)
        => Stored(s).answers[i] = WhitespaceNormalized(follow_ups[s][i])

\* the flow fields process_message leaves for an incoming state and a
\* message, written without the provider's outcome
ReturnedFlowFields(incoming, message) ==
  IF incoming.question_number = 0
    THEN <<1, incoming.is_complete,
           _extract_symptom(_normalize_message(message)), incoming.answers>>
  ELSE IF incoming.question_number >= max_questions
    THEN <<incoming.question_number, TRUE, incoming.initial_symptom,
           Append(incoming.answers, _normalize_message(message))>>
  ELSE <<incoming.question_number + 1, incoming.is_complete,
         incoming.initial_symptom,
         Append(incoming.answers, _normalize_message(message))>>

\* C30: the state process_message returns for a message and an incoming
\* state is the same whether the text-generation call succeeds, returns
\* nothing or raises: question_number, answers, initial_symptom and
\* is_complete are determined by the message and the incoming state.
C30_StateIgnoresOutcome ==
  \A r \in Requests :
    Processed(r)
      => FlowFields(Held(r))
           = ReturnedFlowFields(req[r].incoming[1], req[r].user_message)

\* a diagnosis turn whose provider call failed has returned a complete state
C30_Witness ==
  \E r \in Requests :
    /\ Processed(r)
    /\ req[r].pc = "processed"
    /\ req[r].bot_message.kind = "fallback_diagnosis"
    /\ ~req[r].incoming[1].is_complete
    /\ Held(r).is_complete


\* a step of process_message in the handler r
ProcessMessageStep(r) ==
  \/ ProcessMessage(r)
  \/ HandleInitialSymptom(r)
  \/ HandleFollowUpResponse(r)
  \/ \E outcome \in ProviderOutcomes :
       \/ FirstQuestionReturned(r, outcome)
       \/ DiagnosisReturned(r, outcome)
       \/ NextQuestionReturned(r, outcome)

\* C31: the flow engine does not itself persist: while process_message runs
\* on the state get_conversation returned, the state the store holds for a
\* session does not change; only update, reset or an expiry replacement
\* changes it.
C31_ProcessingLeavesStore ==
  [][\A r \in Requests :
       ProcessMessageStep(r)
         => \A s \in DOMAIN conversations : Stored(s)' = Stored(s)]_vars


\* C32: update_conversation stores a copy of new_state: no change the
\* caller makes to new_state afterwards, an append to its answers included,
\* changes the state the store holds.
C32_StoredCopyIsDetached ==
  [][\A r \in Requests, change \in CallerChanges :
       CallerChangesState(r, change)
         => \A s \in DOMAIN conversations : Stored(s)' = Stored(s)]_vars


\* C33: concurrent chat turns on one session id are not serialized: the
\* last update wins, whatever the other turn has stored or is doing, so two
\* turns on a fresh session can end with question_number 1 and the effect
\* of one turn only.
C33_LastUpdateWins ==
  [][\A r \in Requests :
       UpdateConversation(r)
         => FlowFields(Stored(req[r].session_id))' = FlowFields(Held(r))]_vars

\* two turns were processed on a fresh session, both have stored their
\* state, and the stored state is that of a single first turn
C33_Witness ==
  /\ SessionOrder[1] \in DOMAIN conversations
  /\ turns[SessionOrder[1]] = 2
  /\ \A r \in Requests : req[r].pc = "responded" /\ req[r].session_id = SessionOrder[1]
  /\ Stored(SessionOrder[1]).question_number = 1
  /\ Stored(SessionOrder[1]).answers = <<>>


\* C34: the audio history belongs to the orchestrator instance, not to a
\* caller: the history passed to text generation in a caller's turn is the
\* instance's whole history at that moment, so it can hold the transcript
\* and reply of another caller's successful turn.
C34_InstanceHistorySent ==
  [][\A c \in Callers :
       (audio_turn[c].pc = "transcription"
          /\ audio_turn'[c].pc = "response-generation")
         => audio_turn'[c].history_sent = conversation_history]_vars

\* text generation for one caller was given the exchange of a turn another
\* caller completed after this caller's turn had begun
C34_Witness ==
  \E c, d \in Callers :
    /\ c # d
    /\ audio_turn[c].pc = "response-generation"
    /\ audio_turn[d].pc = "done" /\ audio_turn[d].result.success
    /\ audio_turn[c].history_before = <<>>
    /\ audio_turn[c].history_sent =
         <<[role |-> "user", content |-> Transcript(audio_turn[d].number)],
           [role |-> "assistant", content |-> Reply(audio_turn[d].number)]>>


\* C35, as claimed: on the turn that emits the diagnosis question_number is
\* incremented past the bound, to max_questions + 1 = 4, and the session is
\* marked complete.
C35_Original ==
  [][\A r \in Requests, outcome \in ProviderOutcomes :
       DiagnosisReturned(r, outcome)
         => /\ FlowFields(Held(r))'[1] = max_questions + 1
            /\ FlowFields(Held(r))'[2]]_vars

\* C35: the turn that emits the diagnosis marks the session complete and
\* leaves question_number as it was, at max_questions = 3.
C35_DiagnosisKeepsNumber ==
  [][\A r \in Requests, outcome \in ProviderOutcomes :
       DiagnosisReturned(r, outcome)
         => /\ FlowFields(Held(r))'[1] = FlowFields(Held(r))[1]
            /\ FlowFields(Held(r))'[1] = max_questions
            /\ FlowFields(Held(r))'[2]]_vars

\* a generated diagnosis has been returned for a session that was not
\* complete, with question_number 3
C35_Witness ==
  \E r \in Requests :
    /\ req[r].pc = "processed"
    /\ req[r].bot_message.kind = "generated_diagnosis"
    /\ ~req[r].incoming[1].is_complete
    /\ Held(r).is_complete
    /\ Held(r).question_number = max_questions


\* the follow-up messages of session s so far, each as normalized
RecordedAnswers(s) ==
  [i \in 1..Len(follow_ups[s]) |-> _normalize_message(follow_ups[s][i])]

\* C36: for a fresh session processed turn by turn, the request for
\* question 1 carries the classified symptom and no answers, the request for
\* question k (2, 3) carries initial_symptom, k and the k-1 answers recorded
\* so far, the one just given included, and the diagnosis request carries
\* initial_symptom and all 3 answers, each in the order given.
C36_RequestParameters ==
  \A r \in Requests :
    (CallPending(r) /\ ~req[r].incoming[1].is_complete)
      => LET s == req[r].session_id
             call == req[r].call
         IN  /\ call.symptom = Held(r).initial_symptom
             /\ call.answers = RecordedAnswers(s)
             /\ req[r].pc = "first_question"
                  => /\ call.symptom
                          = _extract_symptom(_normalize_message(req[r].user_message))
                     /\ call.question_number = 1
                     /\ call.answers = <<>>
             /\ req[r].pc = "next_question"
                  => /\ call.question_number \in {2, 3}
                     /\ call.question_number = turns[s] + 1
                     /\ Len(call.answers) = call.question_number - 1
                     /\ call.answers[Len(call.answers)]
                          = _normalize_message(req[r].user_message)
             /\ req[r].pc = "diagnosis"
                  => /\ Len(call.answers) = 3
                     /\ call.answers[3] = _normalize_message(req[r].user_message)

\* the diagnosis is being requested with three answers, not all the same
C36_Witness ==
  \E r \in Requests :
    /\ req[r].pc = "diagnosis"
    /\ ~req[r].incoming[1].is_complete
    /\ Len(req[r].call.answers) = 3
    /\ req[r].call.answers[1] # req[r].call.answers[2]
    /\ req[r].call.symptom = symptom_patterns[1].symptom_type


\* C37: get_conversation on a stored session last updated at most 24 hours
\* ago (exactly 24 included) returns the stored state and changes nothing in
\* the store, last_updated included: a read does not extend the window.
C37_GetLeavesUnexpired ==
  [][\A r \in Requests, s \in Sessions :
       (/\ req[r].pc = "idle"
        /\ req'[r].get_kind # ""
        /\ req'[r].session_id = s
        /\ s \in DOMAIN conversations
        /\ now - Stored(s).last_updated <= 24)
         => /\ Held(r)' = Stored(s)
            /\ DOMAIN conversations' = DOMAIN conversations
            /\ \A t \in DOMAIN conversations : Stored(t)' = Stored(t)]_vars

\* a status query has read a state last updated exactly 24 hours before
C37_Witness ==
  \E r \in Requests :
    /\ req[r].handler = "status"
    /\ req[r].stored_age = 24
    /\ req[r].session_id \in DOMAIN conversations
    /\ Stored(req[r].session_id).last_updated = now - 24
    /\ Stored(req[r].session_id).question_number > 0


\* what the store holds for session id t: its state, or nothing
StoredOrNone(t) ==
  IF t \in DOMAIN conversations THEN <<Stored(t)>> ELSE <<>>

\* C38: sessions are isolated: a step that changes what the store holds for
\* a session id is a step of a request on that id, whatever get, update,
\* reset or chat turn it belongs to and however the turns on different ids
\* interleave.
C38_SessionsIsolated ==
  [][\A t \in Sessions :
       StoredOrNone(t)' # StoredOrNone(t)
         => \E r \in Requests : /\ req'[r].pc # req[r].pc
                                /\ req'[r].session_id = t]_vars

\* a follow-up answer has been recorded on one session while a read of the
\* other session, which has a state stored, is being answered
C38_Witness ==
  \E r, q \in Requests :
    /\ req[r].session_id = SessionOrder[1] /\ req[r].pc = "next_question"
    /\ req[q].session_id = SessionOrder[2] /\ req[q].handler = "status"
    /\ SessionOrder[1] \in DOMAIN conversations
    /\ SessionOrder[2] \in DOMAIN conversations
    /\ Len(Stored(SessionOrder[1]).answers) = 1
    /\ Stored(SessionOrder[2]).answers = <<>>


\* C39: on an orchestrator used by one caller at a time, after any turns
\* and clears the history has even length and alternates user, assistant
\* from a user entry on: the cut to 20 entries never splits an exchange.
C39_HistoryAlternates ==
  /\ Len(conversation_history) % 2 = 0
  /\ \A i \in 1..Len(conversation_history) :
       conversation_history[i].role = IF i % 2 = 1 THEN "user" ELSE "assistant"

\* twelve turns succeeded in a row: the first two exchanges have been cut
C39_Witness ==
  /\ AudioQuiet
  /\ Len(conversation_history) = 20
  /\ conversation_history[1] = [role |-> "user", content |-> Transcript(3)]
  /\ conversation_history[20] = [role |-> "assistant", content |-> Reply(12)]

\* C40: every entry of the response cache is the text the provider generated
\* for a message whose trimmed, lower-cased form is the entry's key, so no
\* entry is a fallback reply; a reply by the fallback leaves the cache as it
\* was; and a request whose key is in the cache is answered at once with the
\* cached text, the provider is not called and the cache is left as it was
C40_CacheHoldsGeneratedReplies ==
  /\ [](\A k \in DOMAIN response_cache :
          /\ response_cache[k].kind = "generated"
          /\ cache_key(response_cache[k].user_message) = k
          /\ \E message \in AiMessages :
               response_cache[k] = GeneratedText(strip(message)))
  /\ [][/\ (ai_req'.pc = "responded" /\ ai_req'.reply.response.kind = "fallback")
             => response_cache' = response_cache
        /\ \A data \in AiBodies :
             (/\ AiResponse(data)
              /\ "message" \in DOMAIN data
              /\ strip(data.message) # <<>>
              /\ cache_key(strip(data.message)) \in DOMAIN response_cache)
               => /\ ai_req'.pc = "responded"
                  /\ ~ai_req'.called
                  /\ ai_req'.reply.cached
                  /\ ai_req'.reply.response =
                       response_cache[cache_key(strip(data.message))]
                  /\ response_cache' = response_cache]_vars

\* a request is answered from the cache, without a call of the provider,
\* with the text generated for a message typed in another case
C40_Witness ==
  /\ ai_req.pc = "responded"
  /\ ai_req.reply.cached
  /\ ~ai_req.called
  /\ ai_req.reply.response.kind = "generated"
  /\ ai_req.reply.response.user_message # ai_req.user_message
  /\ Cardinality(DOMAIN response_cache) = 1

=============================================================================
